---------------------------- MODULE Spec2Model ----------------------------
(***************************************************************************)
(* A model of the iloveimg-nodejs client library: the authentication token *)
(* manager (src/Auth.js) and the task session (src/TaskI.js).              *)
(*                                                                         *)
(* Every asynchronous method is split at its await points: the code        *)
(* between two awaits runs to completion on the single JavaScript thread   *)
(* and is one action; what happens in between (other calls, the clock      *)
(* advancing, responses arriving) is left to the interleaving.             *)
(*                                                                         *)
(* Time is in whole seconds, as Math.floor(Date.now() / 1000) yields it,   *)
(* counted from the construction of the token manager.                     *)
(***************************************************************************)
EXTENDS Integers, FiniteSets, Sequences, TLC

\* ------------------------------------------------------------- bounds

\* The clock advances from 0 to MaxTime.
MaxTime == 2
\* tokenOptions.age ranges over MinAge..MaxAge (z.number() accepts them all).
MaxAge == 1
\* Number of calls that can be in flight at the same time.
MaxSlots == 2
\* Lifetime (exp - now) of the tokens the remote endpoint issues: 1..MaxServerLife.
MaxServerLife == 1
\* Number of task sessions newTask() is asked for.
MaxSessions == 2

Slots == 1 .. MaxSlots
Ages == (0 - 1) .. MaxAge

\* ---------------------------------------------------------- constants

\* static TIME_DELAY = 30
TIME_DELAY == 30
\* age: z.number().optional().default(3600)
DefaultAge == 3600

PublicKey == "publicKey"
DefaultIss == "api.ilovepdf.com"
ServerKey == "server-side-key"
SecretKeys == {"", "secretKey"}
\* Values of tokenOptions.iss: the default and the one the tests configure.
Issuers == {DefaultIss, "mydomain.com"}

\* ------------------------------------------------------------- values

\* JavaScript's undefined, for the fields that hold records.
Undefined == [undef |-> TRUE]

VARIABLES
    \* Auth
    secretKey,      \* #secretKey ("" when not given)
    age,            \* #tokenOptions.age
    now,            \* Math.floor(Date.now() / 1000)
    token,          \* Auth.token, the cached token
    gt,             \* gt[c]: the getToken() call running in slot c
    verifyRet,      \* what the last direct verifyToken() call returned
    \* TaskI
    tool,           \* #tool
    task_id,        \* #task_id ("" when undefined)
    server,         \* #server, the task-scoped client
    remaining_files,\* #remaining_files (0 when undefined)
    files,          \* #files
    fixedAuth,      \* #fixed_server.defaults.headers['Authorization']
    op,             \* op[c]: the TaskI method call running in slot c
    startedOk,      \* a non-debug start() has completed successfully
    addedOk,        \* a non-debug addFile() has succeeded since the last such start()
    \* classifyError
    error,          \* the value classifyError is called with
    thrown,         \* how that call ended (Undefined before the call)
    \* constructors
    ctor,           \* the constructor call under way (Undefined once the object is in use)
    \* ILoveIMGApi
    sessions,       \* how many task sessions newTask() has returned
    \* Auth
    iss             \* #tokenOptions.iss

authVars == <<secretKey, age, now, token, gt, verifyRet>>
taskVars == <<tool, task_id, server, remaining_files, files, fixedAuth, op, startedOk, addedOk>>
errVars == <<error, thrown>>
vars == <<secretKey, age, now, token, gt, verifyRet,
          tool, task_id, server, remaining_files, files, fixedAuth, op, startedOk, addedOk,
          error, thrown, ctor, sessions, iss>>

\* ---------------------------------------------------- jsonwebtoken

\* jsonwebtoken.sign(payload, key): the token string is determined by the
\* payload and the key (HS256 is deterministic).
JwtSign(payload, key) ==
    [iss |-> payload.iss, iat |-> payload.iat, nbf |-> payload.nbf,
     exp |-> payload.exp, jti |-> payload.jti, sig |-> key]

\* jsonwebtoken.decode(token): the payload, the signature is not looked at.
JwtDecode(tok) ==
    [iss |-> tok.iss, iat |-> tok.iat, nbf |-> tok.nbf,
     exp |-> tok.exp, jti |-> tok.jti]

\* jsonwebtoken.verify(token, key) at clock t does not throw: the signature
\* matches, the token is active (nbf <= t) and not expired (t < exp).
JwtVerifyOk(tok, key, t) ==
    /\ tok.sig = key
    /\ ~(tok.nbf > t)
    /\ ~(t >= tok.exp)

\* ------------------------------------------------------------ Error

\* JavaScript values.  A string is the sequence of its pieces, " " being
\* white space; an object is a record with t = "object" that holds every
\* property the code reads, JsUndefined where it has none.
JsUndefined == [t |-> "undefined"]
JsNull == [t |-> "null"]
JsString(s) == [t |-> "string", v |-> s]
JsNumber(n) == [t |-> "number", v |-> n]
JsBoolean(b) == [t |-> "boolean", v |-> b]

\* v.k: undefined on a value that is not an object.
Prop(v, k) == IF v.t = "object" THEN v[k] ELSE JsUndefined

\* Whether v is truthy.
Truthy(v) ==
    CASE v.t \in {"undefined", "null"} -> FALSE
      [] v.t = "string" -> v.v # <<>>
      [] v.t = "number" -> v.v # 0
      [] v.t = "boolean" -> v.v
      [] OTHER -> TRUE

\* String.prototype.trim on the pieces of a string.
RECURSIVE Trim(_)
Trim(s) ==
    IF s = <<>> THEN s
    ELSE IF Head(s) = " " THEN Trim(Tail(s))
    ELSE IF s[Len(s)] = " " THEN Trim(SubSeq(s, 1, Len(s) - 1))
    ELSE s

\* The decimal digits of a natural number.
RECURSIVE Digits(_)
Digits(n) ==
    IF n < 10
    THEN <<(<<"0", "1", "2", "3", "4", "5", "6", "7", "8", "9">>)[n + 1]>>
    ELSE Digits(n \div 10) \o Digits(n % 10)

\* `${v}`: the string a template literal makes of v.
Str(v) ==
    CASE v.t = "string" -> v.v
      [] v.t = "number" -> IF v.v < 0 THEN <<"-">> \o Digits(0 - v.v) ELSE Digits(v.v)
      [] v.t = "undefined" -> <<"undefined">>
      [] v.t = "null" -> <<"null">>
      [] v.t = "boolean" -> IF v.v THEN <<"true">> ELSE <<"false">>
      [] OTHER -> <<"[object Object]">>

\* Mutant: any non-empty string passes the test, white space included.
UsableMessage_NonEmpty(m) == m.t = "string" /\ m.v # <<>>

\* The test of classifyError on a message: typeof m === 'string' && m.trim().
UsableMessage(m) == m.t = "string" /\ Trim(m.v) # <<>>

\* a || b.
Or(a, b) == IF Truthy(a) THEN a ELSE b

\* typeof v === 'string'.
IsString(v) == v.t = "string"

\* A default parameter value: d stands in for undefined only.
Default(v, d) == IF v.t = "undefined" THEN d ELSE v

\* Mutant: the code next to data.message is reported whichever message is used.
ApiErrorParts_TopCode(data) ==
    LET responseData == Or(data, [t |-> "object", message |-> JsUndefined,
                                  code |-> JsUndefined, error |-> JsUndefined])
        m == Prop(responseData, "message")
        e == Prop(responseData, "error")
    IN  IF UsableMessage(m)
        THEN [message |-> m, code |-> Or(Prop(responseData, "code"), JsNumber(0 - 1))]
        ELSE IF Truthy(e) /\ UsableMessage(Prop(e, "message"))
        THEN [message |-> Prop(e, "message"),
              code |-> Or(Prop(responseData, "code"), JsNumber(0 - 1))]
        ELSE [message |-> JsString(<<"Unknown API error occurred.">>),
              code |-> JsNumber(0 - 1)]

\* The message and the code classifyError takes from response.data.
ApiErrorParts(data) ==
    LET responseData == Or(data, [t |-> "object", message |-> JsUndefined,
                                  code |-> JsUndefined, error |-> JsUndefined])
        m == Prop(responseData, "message")
        e == Prop(responseData, "error")
    IN  IF UsableMessage(m)
        THEN [message |-> m, code |-> Or(Prop(responseData, "code"), JsNumber(0 - 1))]
        ELSE IF Truthy(e) /\ UsableMessage(Prop(e, "message"))
        THEN [message |-> Prop(e, "message"),
              code |-> Or(Prop(e, "code"), JsNumber(0 - 1))]
        ELSE [message |-> JsString(<<"Unknown API error occurred.">>),
              code |-> JsNumber(0 - 1)]

\* `${message} (Status: ${status}, Code: ${code})`.
FormattedMessage(message, status, code) ==
    Str(message) \o <<" (Status: ">> \o Str(status) \o <<", Code: ">>
                 \o Str(code) \o <<")">>

\* new ILoveApiError(message, status, error) and new NetworkError(message,
\* error): the request and the response of the Axios error are carried over.
ILoveApiError(message, status, e) ==
    [t |-> "object", name |-> "ILoveApiError", message |-> message,
     status |-> status, request |-> e.request, response |-> e.response]
NetworkError(message, e) ==
    [t |-> "object", name |-> "NetworkError", message |-> message,
     request |-> e.request, response |-> e.response]

\* How a call ends.
Throw(v) == [how |-> "throw", value |-> v]

\* axios.isAxiosError(e).
IsAxiosError(e) == e.t = "object" /\ e.isAxiosError

\* Mutant: a dispatched request is looked at before the response.
classifyError_RequestFirst(e) ==
    IF IsAxiosError(e)
    THEN IF Truthy(e.request)
         THEN Throw(NetworkError(<<"No response received from the server.">>, e))
         ELSE IF Truthy(e.response)
         THEN LET parts == ApiErrorParts(e.response.data)
              IN  Throw(ILoveApiError(
                      FormattedMessage(parts.message, e.response.status, parts.code),
                      e.response.status, e))
         ELSE Throw(NetworkError(<<"An error occurred while setting up the request.">>, e))
    ELSE Throw(e)

\* classifyError(e).
classifyError(e) ==
    IF IsAxiosError(e)
    THEN IF Truthy(e.response)
         THEN LET parts == ApiErrorParts(e.response.data)
              IN  Throw(ILoveApiError(
                      FormattedMessage(parts.message, e.response.status, parts.code),
                      e.response.status, e))
         ELSE IF Truthy(e.request)
         THEN Throw(NetworkError(<<"No response received from the server.">>, e))
         ELSE Throw(NetworkError(<<"An error occurred while setting up the request.">>, e))
    ELSE Throw(e)

\* The values of message and code the bodies of the API carry: next to a
\* proper value, each kind the code tells apart (missing, null, not a string,
\* empty, white space; missing, null, empty, zero).
TopMessages ==
    {JsUndefined, JsNumber(404), JsString(<<>>), JsString(<<" ">>),
     JsString(<<" ", "Not Found">>)}
TopCodes ==
    {JsUndefined, JsNull, JsString(<<>>), JsNumber(0), JsNumber(1001),
     JsString(<<"E1">>)}
NestedMessages ==
    {JsUndefined, JsNull, JsString(<<>>), JsString(<<" ">>),
     JsString(<<"Internal Server Error">>)}
NestedCodes ==
    {JsUndefined, JsNull, JsString(<<>>), JsNumber(0), JsNumber(2001),
     JsString(<<"E2">>)}

\* response.data: null, a string, or an object.
ResponseDatas ==
    {JsNull, JsString(<<"Bad Gateway">>)} \cup
    [t : {"object"}, message : TopMessages, code : TopCodes,
     error : {JsUndefined, JsString(<<"failed">>)} \cup
             [t : {"object"}, message : NestedMessages, code : NestedCodes]]

\* error.response and error.request.
Responses == {JsUndefined} \cup [t : {"object"}, status : {JsNumber(404)}, data : ResponseDatas]
Requests == {JsUndefined, [t |-> "object"]}

\* The values classifyError is handed: Axios errors, other Error objects
\* (with or without such properties), and values that are no objects.
Errors ==
    [t : {"object"}, isAxiosError : BOOLEAN, response : Responses, request : Requests]
        \cup {JsNull, JsString(<<"boom">>)}

\* A call classifyError(error).
ClassifyErrorCall ==
    /\ thrown = Undefined
    /\ thrown' = classifyError(error)
    /\ UNCHANGED error
    /\ UNCHANGED <<ctor, sessions, iss>>
    /\ UNCHANGED authVars
    /\ UNCHANGED taskVars

\* classifyError is not in play, and the constructor has returned.
NoClassify ==
    /\ error = JsUndefined
    /\ thrown = Undefined
    /\ ctor = Undefined

\* ------------------------------------------------------------ Auth

\* Mutant: the payload is dated at the clock, without the delay.
LocalPayload_NoDelay(t) ==
    [iss |-> iss,
     iat |-> t,
     nbf |-> t,
     exp |-> t + age,
     jti |-> PublicKey]

\* The payload #getTokenLocally builds at clock t.
LocalPayload(t) ==
    [iss |-> iss,
     iat |-> t - TIME_DELAY,
     nbf |-> t - TIME_DELAY,
     exp |-> t + age,
     jti |-> PublicKey]

\* #getTokenLocally(): the token signed at clock t.
GetTokenLocally(t) == JwtSign(LocalPayload(t), secretKey)

\* A token the remote endpoint issues at clock t with lifetime d.
ServerToken(t, d) ==
    JwtSign([iss |-> DefaultIss, iat |-> t, nbf |-> t, exp |-> t + d,
             jti |-> PublicKey], ServerKey)

\* The bodies POST /auth can be answered with, as response.data: an object
\* with a token, an object without one, or null.
AuthBodies(t) ==
    {[t |-> "object", token |-> ServerToken(t, d)] : d \in 1 .. MaxServerLife}
        \cup {[t |-> "object", token |-> Undefined], JsNull}

\* The transport failures of a request, as classifyError re-raises them.
TransportErrors == {"ILoveApiError", "NetworkError"}

\* The remote-mode expiry test of verifyToken: timeNow > Number(decoded.exp).
IsExpired(tok, t) == t > JwtDecode(tok).exp

\* Mutant: verifyToken() verifies the signature in both modes.
VerifyPasses_AlwaysSignature(tok, t) == JwtVerifyOk(tok, secretKey, t)

\* verifyToken() passes on cached token tok at clock t.
VerifyPasses(tok, t) ==
    IF secretKey # ""
    THEN JwtVerifyOk(tok, secretKey, t)
    ELSE ~IsExpired(tok, t)

\* Mutant: verifyToken() returns nothing for a failing token but forgets to
\* reset the cache.
VerifyToken_NoReset(tok, t) ==
    IF tok = Undefined
    THEN [token |-> Undefined, ret |-> Undefined]
    ELSE IF VerifyPasses(tok, t)
         THEN [token |-> tok, ret |-> JwtDecode(tok)]
         ELSE [token |-> tok, ret |-> Undefined]

\* verifyToken() as a function of the cached token and the clock: the cache it
\* leaves and the value it returns.
VerifyToken(tok, t) ==
    IF tok = Undefined
    THEN [token |-> Undefined, ret |-> Undefined]
    ELSE IF VerifyPasses(tok, t)
         THEN [token |-> tok, ret |-> JwtDecode(tok)]
         ELSE [token |-> Undefined, ret |-> Undefined]

\* The request #getTokenFromServer dispatches.
AuthRequest == [method |-> "POST", path |-> "/auth", public_key |-> PublicKey]

\* A slot in which no getToken() call runs.  val is the token the call got,
\* err the error it threw, cleared the cached token its verifyToken() reset,
\* signed whether it called jsonwebtoken.sign, req the request it dispatched.
GtIdle ==
    [pc |-> "idle", val |-> Undefined, err |-> "", cleared |-> Undefined,
     signed |-> FALSE, req |-> Undefined, resp |-> Undefined]

\* Mutant: getToken() ignores the cache and always issues a token.
GetTokenBody_NoCache(c) ==
    LET v == VerifyToken(token, now)
        cl == IF token # Undefined /\ v.token = Undefined THEN token ELSE Undefined
    IN  IF secretKey # ""
        THEN /\ token' = GetTokenLocally(now)
             /\ gt' = [gt EXCEPT ![c] = [GtIdle EXCEPT !.pc = "outer",
                                            !.val = GetTokenLocally(now),
                                            !.cleared = cl, !.signed = TRUE]]
        ELSE /\ token' = v.token
             /\ gt' = [gt EXCEPT ![c] = [GtIdle EXCEPT !.pc = "net",
                                            !.cleared = cl, !.req = AuthRequest]]

\* Mutant: getToken() asks the remote endpoint whatever the secretKey.
GetTokenBody_AlwaysRemote(c) ==
    LET v == VerifyToken(token, now)
        cl == IF token # Undefined /\ v.token = Undefined THEN token ELSE Undefined
    IN  IF v.token # Undefined
        THEN /\ token' = v.token
             /\ gt' = [gt EXCEPT ![c] = [GtIdle EXCEPT !.pc = "done",
                                            !.val = v.token]]
        ELSE /\ token' = Undefined
             /\ gt' = [gt EXCEPT ![c] = [GtIdle EXCEPT !.pc = "net",
                                            !.cleared = cl, !.req = AuthRequest]]

\* getToken() up to its first await, called in slot c.
\*   pc = "done"  : resolved with val (the cached token, no await was reached)
\*   pc = "outer" : suspended at `await tokenPromise`, which resolves with val
\*   pc = "net"   : #getTokenFromServer is suspended at POST /auth
GetTokenBody(c) ==
    LET v == VerifyToken(token, now)
        cl == IF token # Undefined /\ v.token = Undefined THEN token ELSE Undefined
    IN  IF v.token # Undefined
        THEN /\ token' = v.token
             /\ gt' = [gt EXCEPT ![c] = [GtIdle EXCEPT !.pc = "done",
                                            !.val = v.token]]
        ELSE IF secretKey # ""
        THEN /\ token' = GetTokenLocally(now)
             /\ gt' = [gt EXCEPT ![c] = [GtIdle EXCEPT !.pc = "outer",
                                            !.val = GetTokenLocally(now),
                                            !.cleared = cl, !.signed = TRUE]]
        ELSE /\ token' = Undefined
             /\ gt' = [gt EXCEPT ![c] = [GtIdle EXCEPT !.pc = "net",
                                            !.cleared = cl, !.req = AuthRequest]]

\* A direct call of auth.getToken().
GetTokenCall(c) ==
    /\ gt[c].pc = "idle"
    /\ op[c].pc = "idle"
    /\ GetTokenBody(c)
    /\ UNCHANGED <<secretKey, age, now, verifyRet>>
    /\ UNCHANGED errVars
    /\ UNCHANGED <<ctor, sessions, iss>>
    /\ UNCHANGED taskVars

\* Mutant: #getTokenFromServer caches and returns response.data.token
\* whatever it is.
AuthResponse_Unchecked(c) ==
    /\ gt[c].pc = "net"
    /\ \E body \in AuthBodies(now) :
          IF body.t # "object"
          THEN /\ token' = token
               /\ gt' = [gt EXCEPT ![c].pc = "failed", ![c].resp = body,
                                   ![c].err = "TypeError"]
          ELSE /\ token' = body.token
               /\ gt' = [gt EXCEPT ![c].pc = "outer", ![c].resp = body,
                                   ![c].val = body.token]
    /\ UNCHANGED <<secretKey, age, now, verifyRet>>
    /\ UNCHANGED errVars
    /\ UNCHANGED <<ctor, sessions, iss>>
    /\ UNCHANGED taskVars

\* POST /auth is answered with a body: #getTokenFromServer caches and returns
\* its token, or throws when the body carries none.  Reading the token of a
\* null body throws a TypeError; classifyError rethrows either error.
AuthResponse(c) ==
    /\ gt[c].pc = "net"
    /\ \E body \in AuthBodies(now) :
          IF body.t # "object"
          THEN /\ token' = token
               /\ gt' = [gt EXCEPT ![c].pc = "failed", ![c].resp = body,
                                   ![c].err = "TypeError"]
          ELSE IF body.token # Undefined
          THEN /\ token' = body.token
               /\ gt' = [gt EXCEPT ![c].pc = "outer", ![c].resp = body,
                                   ![c].val = body.token]
          ELSE /\ token' = token
               /\ gt' = [gt EXCEPT ![c].pc = "failed", ![c].resp = body,
                                   ![c].err = "Auth token cannot be retrieved"]
    /\ UNCHANGED <<secretKey, age, now, verifyRet>>
    /\ UNCHANGED errVars
    /\ UNCHANGED <<ctor, sessions, iss>>
    /\ UNCHANGED taskVars

\* Mutant: a failed POST /auth resets the cache.
AuthFailure_ClearsCache(c) ==
    /\ gt[c].pc = "net"
    /\ \E e \in TransportErrors :
          gt' = [gt EXCEPT ![c].pc = "failed", ![c].err = e]
    /\ token' = Undefined
    /\ UNCHANGED <<secretKey, age, now, verifyRet>>
    /\ UNCHANGED errVars
    /\ UNCHANGED <<ctor, sessions, iss>>
    /\ UNCHANGED taskVars

\* POST /auth fails in the transport: classifyError raises.
AuthFailure(c) ==
    /\ gt[c].pc = "net"
    /\ \E e \in TransportErrors :
          gt' = [gt EXCEPT ![c].pc = "failed", ![c].err = e]
    /\ UNCHANGED <<secretKey, age, now, token, verifyRet>>
    /\ UNCHANGED errVars
    /\ UNCHANGED <<ctor, sessions, iss>>
    /\ UNCHANGED taskVars

\* Mutant: getToken() returns the awaited token without caching it.
GetTokenResume_NoCache(c) ==
    /\ gt[c].pc = "outer"
    /\ token' = token
    /\ gt' = [gt EXCEPT ![c].pc = "done"]
    /\ UNCHANGED <<secretKey, age, now, verifyRet>>
    /\ UNCHANGED errVars
    /\ UNCHANGED <<ctor, sessions, iss>>
    /\ UNCHANGED taskVars

\* getToken() resumes from `await tokenPromise`: caches the token and returns it.
GetTokenResume(c) ==
    /\ gt[c].pc = "outer"
    /\ token' = gt[c].val
    /\ gt' = [gt EXCEPT ![c].pc = "done"]
    /\ UNCHANGED <<secretKey, age, now, verifyRet>>
    /\ UNCHANGED errVars
    /\ UNCHANGED <<ctor, sessions, iss>>
    /\ UNCHANGED taskVars

\* The caller of a direct getToken() is done with its result; the slot is free.
GetTokenRelease(c) ==
    /\ gt[c].pc \in {"done", "failed"}
    /\ op[c].pc = "idle"
    /\ gt' = [gt EXCEPT ![c] = GtIdle]
    /\ UNCHANGED <<secretKey, age, now, token, verifyRet>>
    /\ UNCHANGED errVars
    /\ UNCHANGED <<ctor, sessions, iss>>
    /\ UNCHANGED taskVars

\* A direct call of auth.verifyToken().
VerifyTokenCall ==
    /\ token' = VerifyToken(token, now).token
    /\ verifyRet' = VerifyToken(token, now).ret
    /\ UNCHANGED <<secretKey, age, now, gt>>
    /\ UNCHANGED errVars
    /\ UNCHANGED <<ctor, sessions, iss>>
    /\ UNCHANGED taskVars

\* A direct call of auth.verifyToken() whose return value the caller drops.
VerifyTokenDiscarded ==
    /\ token' = VerifyToken(token, now).token
    /\ UNCHANGED <<secretKey, age, now, gt, verifyRet>>
    /\ UNCHANGED errVars
    /\ UNCHANGED <<ctor, sessions, iss>>
    /\ UNCHANGED taskVars

\* The keys a token assigned to the public field auth.token may be signed
\* with: the remote endpoint's, the secretKey of the local mode, and another.
SigningKeys == {ServerKey, "secretKey", "anotherKey"}

\* The tokens a caller assigns to auth.token.
AssignedTokens ==
    {JwtSign([iss |-> DefaultIss, iat |-> 0, nbf |-> 0, exp |-> e,
              jti |-> PublicKey], k) : e \in 0 .. MaxTime, k \in SigningKeys}

\* auth.token = t: the cache is a public field.
SetToken ==
    /\ \E t \in AssignedTokens : token' = t
    /\ UNCHANGED <<secretKey, age, now, gt, verifyRet>>
    /\ UNCHANGED errVars
    /\ UNCHANGED <<ctor, sessions, iss>>
    /\ UNCHANGED taskVars

\* A second passes.
Tick ==
    /\ now < MaxTime
    /\ now' = now + 1
    /\ UNCHANGED <<secretKey, age, token, gt, verifyRet>>
    /\ UNCHANGED errVars
    /\ UNCHANGED <<ctor, sessions, iss>>
    /\ UNCHANGED taskVars

\* ------------------------------------------------------------ TaskI

ToolTypes == {"convertimage", "removebackgroundimage", "upscaleimage", "watermarkimage"}

\* The methods that need a started task.
TaskMethods == {"addFile", "deleteFile", "process", "download", "details", "delete"}

ErrNeedStart == "You need to retrieve task id and assigned server first using start() method."
ErrNeedFiles == "You need to add files first using addFile() method."
ErrInvalidResponse == "Invalid response: missing required fields"
ErrZod == "ZodError"
ErrType == "TypeError"

\* The base URL of a client: `${protocol}://${host}/${version}`.
BaseURL(host) == <<"https", host, "v1">>

\* The header value `Bearer ${tok}`.
Bearer(tok) == <<"Bearer", tok>>

\* #server: undefined, or the client axios.create() built for the assigned server.
NoServer == [set |-> FALSE]
NewServer(host, tok) ==
    [set |-> TRUE, baseURL |-> BaseURL(host), Authorization |-> Bearer(tok)]

\* #files: undefined, or a list of {server_filename, filename}.
NoFiles == [set |-> FALSE, list |-> <<>>]
FileList(l) == [set |-> TRUE, list |-> l]
AFile == [server_filename |-> "server-file.jpg", filename |-> "file.jpg"]

\* response.data of GET /start/{tool}; a missing field is "" or 0 (falsy, as
\* undefined is), a missing body has present = FALSE.
StartData(s, t, n) == [present |-> TRUE, server |-> s, task |-> t, remaining_files |-> n]
StartDatas ==
    {StartData("server-1", "task-1", 255), StartData("server-2", "task-2", 7),
     StartData("", "task-1", 255), StartData("server-1", "", 255),
     StartData("server-1", "task-1", 0),
     [present |-> FALSE, server |-> "", task |-> "", remaining_files |-> 0]}

\* Mutant: the check of start() lets remaining_files = 0 through.
StartDataValid_AllowZero(d) ==
    /\ d.present
    /\ d.server # ""
    /\ d.task # ""

\* The check of start() on a non-debug response.
StartDataValid(d) ==
    /\ d.present
    /\ d.server # ""
    /\ d.task # ""
    /\ d.remaining_files # 0

\* Mutant: start() assigns the fields before it checks the response.
StartAssigns_BeforeCheck(d, debug) == ~debug

\* Mutant: start() assigns the fields in debug mode as well.
StartAssigns_InDebug(d, debug) == StartDataValid(d)

\* Whether start() reaches its assignments for response data d: only outside
\* debug mode, and only past the check of the response.
StartAssigns(d, debug) == ~debug /\ StartDataValid(d)

\* A successful response of the task server, and its body.
Body == [data |-> "response-body"]
Response == [status |-> 200, data |-> Body]

\* ------------------------------------------------------ tool options

\* The outcome of a zod parse: the parsed value, or a ZodError.
Parsed(v) == [ok |-> TRUE, err |-> "", val |-> v]
Failed(e) == [ok |-> FALSE, err |-> e, val |-> JsUndefined]

\* An array of JavaScript values.
JsArray(s) == [t |-> "array", v |-> s]

\* The validated tool options as process() spreads them into the body of
\* POST /process: the properties of every tool's schema, JsUndefined for
\* those that are not there.  {} and undefined spread to nothing.
NoToolOptions ==
    [to |-> JsUndefined, gif_time |-> JsUndefined, gif_loop |-> JsUndefined,
     multiplier |-> JsUndefined, elements |-> JsUndefined]

\* z.enum(['jpg', 'png', 'gif', 'gif_animation', 'heic'])
ConvertTargets == {<<"jpg">>, <<"png">>, <<"gif">>, <<"gif_animation">>, <<"heic">>}

\* TaskProcessConvertImageOptions.parseAsync(v): the object is optional, so
\* undefined parses to undefined; an object has its three properties checked
\* and their defaults filled in.
TaskProcessConvertImageOptions(v) ==
    IF v.t = "undefined" THEN Parsed(NoToolOptions)
    ELSE IF v.t # "object" THEN Failed("ZodError")
    ELSE IF /\ v.to.t = "undefined" \/ (v.to.t = "string" /\ v.to.v \in ConvertTargets)
            /\ v.gif_time.t \in {"undefined", "number"}
            /\ v.gif_loop.t \in {"undefined", "boolean"}
         THEN Parsed([NoToolOptions EXCEPT
                         !.to = Default(v.to, JsString(<<"jpg">>)),
                         !.gif_time = Default(v.gif_time, JsNumber(50)),
                         !.gif_loop = Default(v.gif_loop, JsBoolean(TRUE))])
         ELSE Failed("ZodError")

\* Mutant: any number is accepted as multiplier.
TaskProcessUpscaleImageOptions_AnyNumber(v) ==
    IF v.t # "object" THEN Failed("ZodError")
    ELSE IF v.multiplier.t = "number"
         THEN Parsed([NoToolOptions EXCEPT !.multiplier = v.multiplier])
         ELSE Failed("ZodError")

\* TaskProcessUpscaleImageOptions.parseAsync(v): an object whose multiplier
\* is a number that [2, 4] includes.
TaskProcessUpscaleImageOptions(v) ==
    IF v.t # "object" THEN Failed("ZodError")
    ELSE IF v.multiplier.t = "number" /\ v.multiplier.v \in {2, 4}
         THEN Parsed([NoToolOptions EXCEPT !.multiplier = v.multiplier])
         ELSE Failed("ZodError")

\* TaskProcessWatermarkImageElementsProps on one element, of whose
\* properties type, text, image and rotation are modelled (the others are
\* optional with a default, like rotation): whether it passes.
WatermarkElementPasses(e) ==
    /\ e.t = "object"
    /\ e.type.t = "string" /\ e.type.v \in {<<"image">>, <<"text">>}
    /\ e.text.t \in {"undefined", "string"}
    /\ e.image.t \in {"undefined", "string"}
    /\ \/ e.rotation.t = "undefined"
       \/ e.rotation.t = "number" /\ e.rotation.v >= 0 /\ e.rotation.v <= 360
    /\ e.type.v = <<"text">> => Truthy(e.text)
    /\ e.type.v = <<"image">> => Truthy(e.image)

\* TaskProcessWatermarkImageOptions.parseAsync(v): an object with an array of
\* at least one element, each of which passes; defaults are filled in.
TaskProcessWatermarkImageOptions(v) ==
    IF v.t # "object" THEN Failed("ZodError")
    ELSE IF /\ v.elements.t = "array"
            /\ Len(v.elements.v) >= 1
            /\ \A i \in DOMAIN v.elements.v : WatermarkElementPasses(v.elements.v[i])
         THEN Parsed([NoToolOptions EXCEPT !.elements =
                 JsArray([i \in DOMAIN v.elements.v |->
                    [v.elements.v[i] EXCEPT
                        !.rotation = Default(v.elements.v[i].rotation, JsNumber(0))]])])
         ELSE Failed("ZodError")

\* Mutant: every sub-object of the tool options is validated, whichever the
\* tool of the session.
validateProcessToolOptions_EveryTool(tool_, options) ==
    LET c == TaskProcessConvertImageOptions(Prop(options, "convertimage"))
        u == TaskProcessUpscaleImageOptions(Prop(options, "upscaleimage"))
        w == TaskProcessWatermarkImageOptions(Prop(options, "watermarkimage"))
        given(k) == Prop(options, k).t # "undefined"
    IN  IF \/ given("convertimage") /\ tool_ # "convertimage" /\ ~c.ok
           \/ given("upscaleimage") /\ tool_ # "upscaleimage" /\ ~u.ok
           \/ given("watermarkimage") /\ tool_ # "watermarkimage" /\ ~w.ok
        THEN Failed("ZodError")
        ELSE CASE tool_ = "convertimage" -> c
               [] tool_ = "removebackgroundimage" -> Parsed(NoToolOptions)
               [] tool_ = "upscaleimage" -> u
               [] tool_ = "watermarkimage" -> w
               [] OTHER -> Failed("Unsupported tool")

\* validateProcessToolOptions(tool, options): the validator of the tool is
\* applied to options?.[tool]; removebackgroundimage resolves {} at once.
validateProcessToolOptions(tool_, options) ==
    CASE tool_ = "convertimage" ->
            TaskProcessConvertImageOptions(Prop(options, tool_))
      [] tool_ = "removebackgroundimage" -> Parsed(NoToolOptions)
      [] tool_ = "upscaleimage" ->
            TaskProcessUpscaleImageOptions(Prop(options, tool_))
      [] tool_ = "watermarkimage" ->
            TaskProcessWatermarkImageOptions(Prop(options, tool_))
      [] OTHER -> Failed("Unsupported tool")

\* toolOptions = {}: an object without any property.  Besides the
\* sub-objects keyed by tool it has the property multiplier, for callers
\* that pass the options of the tool unkeyed as the tests do.
EmptyToolOptions ==
    [t |-> "object", convertimage |-> JsUndefined,
     removebackgroundimage |-> JsUndefined, upscaleimage |-> JsUndefined,
     watermarkimage |-> JsUndefined, multiplier |-> JsUndefined]

\* Sub-objects for convertimage: none, {}, {to: 'png'}, {to: 'bmp'}.
ConvertSubs ==
    {JsUndefined}
      \cup [t : {"object"},
            to : {JsUndefined, JsString(<<"png">>), JsString(<<"bmp">>)},
            gif_time : {JsUndefined}, gif_loop : {JsUndefined}]

\* Sub-objects for upscaleimage: none, {}, {multiplier: 2}, 3 or 4.
UpscaleSubs ==
    {JsUndefined}
      \cup [t : {"object"},
            multiplier : {JsUndefined, JsNumber(2), JsNumber(3), JsNumber(4)}]

ATextElement ==
    [t |-> "object", type |-> JsString(<<"text">>), text |-> JsString(<<"hello">>),
     image |-> JsUndefined, rotation |-> JsUndefined]

\* Sub-objects for watermarkimage: none, {elements: []}, one text element.
WatermarkSubs ==
    {JsUndefined}
      \cup [t : {"object"}, elements : {JsArray(<<>>), JsArray(<<ATextElement>>)}]

\* The toolOptions arguments of process(): not passed, null, or an object
\* with sub-objects for the tools, well-formed or not.
ToolOptionsArgs ==
    {JsUndefined, JsNull}
      \cup [t : {"object"}, convertimage : ConvertSubs,
            removebackgroundimage : {JsUndefined}, upscaleimage : UpscaleSubs,
            watermarkimage : WatermarkSubs, multiplier : {JsUndefined, JsNumber(2)}]

\* The two toolOptions arguments that suffice where the tool options are not
\* the subject: not passed, and {upscaleimage: {multiplier: 2}}.
FewToolOptions ==
    {JsUndefined,
     [EmptyToolOptions EXCEPT
         !.upscaleimage = [t |-> "object", multiplier |-> JsNumber(2)]]}

\* The keys task, tool and files as a caller may add them to an object it
\* passes: "" or NoFiles where the key is absent.
NoCallerKeys == [task |-> "", tool |-> "", files |-> NoFiles]
CallerKeys ==
    {NoCallerKeys,
     [task |-> "other-task", tool |-> "resizeimage", files |-> FileList(<<>>)]}

\* Such keys in the options of a call and in the sub-object of toolOptions
\* for the session's tool.
NoExtraKeys == [options |-> NoCallerKeys, toolOptions |-> NoCallerKeys]

\* Mutant: the schemas pass keys they do not declare through.
StripUnknownKeys_Passthrough(o) == o

\* What z.object(...).parseAsync leaves of the keys task, tool and files: none
\* of the option schemas declares them, and an object schema drops the keys
\* it does not declare.
StripUnknownKeys(o) == NoCallerKeys

\* {...body, ...o} for the keys task, tool and files: a key of o wins.
Spread(body, o) ==
    [body EXCEPT !.task = IF o.task # "" THEN o.task ELSE @,
                 !.tool = IF o.tool # "" THEN o.tool ELSE @,
                 !.files = IF o.files.set THEN o.files.list ELSE @]

\* The body of POST /upload, DELETE /upload and POST /process with the
\* validated options, and (process) the validated tool options, spread over
\* it; the validator of removebackgroundimage resolves {}.
SpreadOptions(req, kind, extra) ==
    IF kind \notin {"addFile", "deleteFile", "process"}
    THEN req
    ELSE LET withOptions == Spread(req, StripUnknownKeys(extra.options))
         IN  IF kind = "process" /\ tool # "removebackgroundimage"
             THEN Spread(withOptions, StripUnknownKeys(extra.toolOptions))
             ELSE withOptions

\* A slot in which no TaskI method runs.  debug, optsOk, toolOptions and toolOk
\* describe the arguments of the call: the debug flag of the options, whether
\* the options pass their schema, the toolOptions argument of process(), and
\* whether validateProcessToolOptions accepts it.  req is the request the
\* call dispatched, resp the response data it received, out its outcome.
OpIdle ==
    [kind |-> "none", pc |-> "idle", debug |-> FALSE, optsOk |-> TRUE,
     toolOptions |-> JsUndefined, toolOk |-> TRUE, extra |-> NoExtraKeys,
     req |-> Undefined, resp |-> Undefined, out |-> Undefined]

Resolved(v) == [ok |-> TRUE, val |-> v]
Rejected(e) == [ok |-> FALSE, err |-> e]

\* Mutant: the start() precondition is skipped in debug mode.
PreconditionError_DebugBypass(kind, debug) ==
    IF ~debug /\ (task_id = "" \/ ~server.set)
    THEN ErrNeedStart
    ELSE IF kind = "process" /\ (~files.set \/ Len(files.list) = 0)
    THEN ErrNeedFiles
    ELSE ""

\* Mutant: process() only checks that #files is an array.
PreconditionError_ArrayOnly(kind, debug) ==
    IF task_id = "" \/ ~server.set
    THEN ErrNeedStart
    ELSE IF kind = "process" /\ ~files.set
    THEN ErrNeedFiles
    ELSE ""

\* Mutant: process() tests the files before the task id and the server.
PreconditionError_FilesFirst(kind, debug) ==
    IF kind = "process" /\ (~files.set \/ Len(files.list) = 0)
    THEN ErrNeedFiles
    ELSE IF task_id = "" \/ ~server.set
    THEN ErrNeedStart
    ELSE ""

\* The precondition checks at the head of addFile, deleteFile, process,
\* download, details and delete: the message thrown, "" when they pass.
PreconditionError(kind, debug) ==
    IF task_id = "" \/ ~server.set
    THEN ErrNeedStart
    ELSE IF kind = "process" /\ (~files.set \/ Len(files.list) = 0)
    THEN ErrNeedFiles
    ELSE ""

\* A call of one of the six methods in slot c, up to its first await: it
\* throws a precondition error, or suspends in the validation of its options.
\* extra are the keys task, tool and files the caller added to its arguments.
MethodCallKeyed(c, kind, debug, optsOk, toolOptions, extra) ==
    /\ op[c].pc = "idle"
    /\ gt[c].pc = "idle"
    /\ LET e == PreconditionError(kind, debug)
           call == [OpIdle EXCEPT
                      !.kind = kind, !.debug = debug, !.optsOk = optsOk,
                      !.toolOptions = toolOptions, !.extra = extra,
                      !.toolOk = (kind = "process") =>
                          validateProcessToolOptions(tool,
                              Default(toolOptions, EmptyToolOptions)).ok]
       IN  op' = [op EXCEPT ![c] =
                    IF e # ""
                    THEN [call EXCEPT !.pc = "done", !.out = Rejected(e)]
                    ELSE [call EXCEPT !.pc = "vopts"]]
    /\ UNCHANGED <<tool, task_id, server, remaining_files, files, fixedAuth, startedOk, addedOk>>
    /\ UNCHANGED authVars
    /\ UNCHANGED errVars
    /\ UNCHANGED <<ctor, sessions, iss>>

\* The same call with no such keys.
MethodCall(c, kind, debug, optsOk, toolOptions) ==
    MethodCallKeyed(c, kind, debug, optsOk, toolOptions, NoExtraKeys)

addFile(c) == \E debug, optsOk \in BOOLEAN : MethodCall(c, "addFile", debug, optsOk, JsUndefined)
deleteFile(c) == \E debug, optsOk \in BOOLEAN : MethodCall(c, "deleteFile", debug, optsOk, JsUndefined)
download(c) == \E debug, optsOk \in BOOLEAN : MethodCall(c, "download", debug, optsOk, JsUndefined)
details(c) == \E debug, optsOk \in BOOLEAN : MethodCall(c, "details", debug, optsOk, JsUndefined)
delete(c) == \E debug, optsOk \in BOOLEAN : MethodCall(c, "delete", debug, optsOk, JsUndefined)

\* process(options, toolOptions) with the tool options taken from args.
processWith(c, args) ==
    \E debug, optsOk \in BOOLEAN : \E toolOptions \in args :
        MethodCall(c, "process", debug, optsOk, toolOptions)

process(c) == processWith(c, FewToolOptions)

\* addFile, deleteFile or process called with options that pass validation
\* and carry, or not, the keys task, tool and files.
KeyedCall(c) ==
    \E kind \in {"addFile", "deleteFile", "process"} : \E debug \in BOOLEAN :
        \E toolOptions \in FewToolOptions : \E o, t \in CallerKeys :
            MethodCallKeyed(c, kind, debug, TRUE, toolOptions,
                            [options |-> o, toolOptions |-> t])

\* The request a method dispatches on the task-scoped client, built from the
\* fields as they are at the time of the dispatch.
Request(kind, debug, toolOptions) ==
    [method |-> CASE kind \in {"addFile", "process"} -> "POST"
                  [] kind \in {"deleteFile", "delete"} -> "DELETE"
                  [] OTHER -> "GET",
     path |-> CASE kind \in {"addFile", "deleteFile"} -> <<"/upload">>
                [] kind = "process" -> <<"/process">>
                [] kind = "download" -> <<"/download", task_id>>
                [] OTHER -> <<"/task", task_id>>,
     baseURL |-> server.baseURL,
     Authorization |-> server.Authorization,
     task |-> IF kind \in {"addFile", "deleteFile", "process"} THEN task_id ELSE "",
     tool |-> IF kind = "process" THEN tool ELSE "",
     files |-> IF kind = "process" THEN files.list ELSE <<>>,
     debug |-> debug,
     toolOptions |-> IF kind = "process"
                     THEN validateProcessToolOptions(tool,
                              Default(toolOptions, EmptyToolOptions)).val
                     ELSE NoToolOptions]

\* The method in slot c dispatches its request, or fails in the attempt when
\* #server is undefined by then.
Dispatch(c) ==
    IF server.set
    THEN op' = [op EXCEPT ![c].pc = "net",
                          ![c].req = SpreadOptions(
                                Request(op[c].kind, op[c].debug, op[c].toolOptions),
                                op[c].kind, op[c].extra)]
    ELSE op' = [op EXCEPT ![c].pc = "done", ![c].out = Rejected(ErrType)]

\* validateProcessToolOptions(tool, toolOptions) resolves: the validator of
\* removebackgroundimage resolves {} without looking at the options.
ToolOptionsPass(t, toolOk) == t = "removebackgroundimage" \/ toolOk

\* Mutant: the outcome of the validation is not looked at.
OptionsValidated_Unchecked(c) ==
    /\ op[c].pc = "vopts"
    /\ op[c].kind \in TaskMethods
    /\ IF op[c].kind = "process"
       THEN op' = [op EXCEPT ![c].pc = "vtool"]
       ELSE Dispatch(c)
    /\ UNCHANGED <<tool, task_id, server, remaining_files, files, fixedAuth, startedOk, addedOk>>
    /\ UNCHANGED authVars
    /\ UNCHANGED errVars
    /\ UNCHANGED <<ctor, sessions, iss>>

\* The method in slot c resumes from the validation of its options: a
\* ZodError, or (process) the validation of the tool options, or the request.
OptionsValidated(c) ==
    /\ op[c].pc = "vopts"
    /\ op[c].kind \in TaskMethods
    /\ IF ~op[c].optsOk
       THEN op' = [op EXCEPT ![c].pc = "done", ![c].out = Rejected(ErrZod)]
       ELSE IF op[c].kind = "process"
       THEN op' = [op EXCEPT ![c].pc = "vtool"]
       ELSE Dispatch(c)
    /\ UNCHANGED <<tool, task_id, server, remaining_files, files, fixedAuth, startedOk, addedOk>>
    /\ UNCHANGED authVars
    /\ UNCHANGED errVars
    /\ UNCHANGED <<ctor, sessions, iss>>

\* process() resumes from validateProcessToolOptions().
ToolOptionsValidated(c) ==
    /\ op[c].pc = "vtool"
    /\ IF ~validateProcessToolOptions(tool,
              Default(op[c].toolOptions, EmptyToolOptions)).ok
       THEN op' = [op EXCEPT ![c].pc = "done", ![c].out = Rejected(ErrZod)]
       ELSE Dispatch(c)
    /\ UNCHANGED <<tool, task_id, server, remaining_files, files, fixedAuth, startedOk, addedOk>>
    /\ UNCHANGED authVars
    /\ UNCHANGED errVars
    /\ UNCHANGED <<ctor, sessions, iss>>

\* What a method returns for a successful response.
ReturnValue(kind, debug) ==
    CASE kind \in {"addFile", "process", "details"} -> Response.data
      [] kind \in {"deleteFile", "delete"} -> IF debug THEN Response.data ELSE Undefined
      [] OTHER -> IF debug THEN Response.data ELSE Response

\* Mutant: a successful addFile() appends the uploaded file to #files.
MethodResponse_Appends(c) ==
    /\ op[c].pc = "net"
    /\ op[c].kind \in TaskMethods
    /\ op' = [op EXCEPT ![c].pc = "done", ![c].resp = Response,
                        ![c].out = Resolved(ReturnValue(op[c].kind, op[c].debug))]
    /\ addedOk' = (addedOk \/ (op[c].kind = "addFile" /\ ~op[c].debug))
    /\ files' = IF op[c].kind = "addFile" /\ ~op[c].debug /\ Len(files.list) = 0
                THEN FileList(<<AFile>>)
                ELSE files
    /\ UNCHANGED <<tool, task_id, server, remaining_files, fixedAuth, startedOk>>
    /\ UNCHANGED authVars
    /\ UNCHANGED errVars
    /\ UNCHANGED <<ctor, sessions, iss>>

\* The task server answers the request of the method in slot c.
MethodResponse(c) ==
    /\ op[c].pc = "net"
    /\ op[c].kind \in TaskMethods
    /\ op' = [op EXCEPT ![c].pc = "done", ![c].resp = Response,
                        ![c].out = Resolved(ReturnValue(op[c].kind, op[c].debug))]
    /\ addedOk' = (addedOk \/ (op[c].kind = "addFile" /\ ~op[c].debug))
    /\ UNCHANGED <<tool, task_id, server, remaining_files, files, fixedAuth, startedOk>>
    /\ UNCHANGED authVars
    /\ UNCHANGED errVars
    /\ UNCHANGED <<ctor, sessions, iss>>

\* The request of the method in slot c fails: classifyError raises.
MethodFailure(c) ==
    /\ op[c].pc = "net"
    /\ op[c].kind \in TaskMethods
    /\ \E e \in TransportErrors :
          op' = [op EXCEPT ![c].pc = "done", ![c].out = Rejected(e)]
    /\ UNCHANGED <<tool, task_id, server, remaining_files, files, fixedAuth, startedOk, addedOk>>
    /\ UNCHANGED authVars
    /\ UNCHANGED errVars
    /\ UNCHANGED <<ctor, sessions, iss>>

\* start(options) up to its first await, the validation of the options.
start(c) ==
    /\ op[c].pc = "idle"
    /\ gt[c].pc = "idle"
    /\ \E debug, optsOk \in BOOLEAN :
          op' = [op EXCEPT ![c] = [OpIdle EXCEPT !.kind = "start", !.pc = "vopts",
                                      !.debug = debug, !.optsOk = optsOk]]
    /\ UNCHANGED <<tool, task_id, server, remaining_files, files, fixedAuth, startedOk, addedOk>>
    /\ UNCHANGED authVars
    /\ UNCHANGED errVars
    /\ UNCHANGED <<ctor, sessions, iss>>

\* start() resumes from the validation: a ZodError, or the call of getToken().
StartValidated(c) ==
    /\ op[c].pc = "vopts"
    /\ op[c].kind = "start"
    /\ IF ~op[c].optsOk
       THEN /\ op' = [op EXCEPT ![c].pc = "done", ![c].out = Rejected(ErrZod)]
            /\ UNCHANGED <<token, gt>>
       ELSE /\ op' = [op EXCEPT ![c].pc = "token"]
            /\ GetTokenBody(c)
    /\ UNCHANGED <<secretKey, age, now, verifyRet>>
    /\ UNCHANGED errVars
    /\ UNCHANGED <<ctor, sessions, iss>>
    /\ UNCHANGED <<tool, task_id, server, remaining_files, files, fixedAuth, startedOk, addedOk>>

\* The request of start() on the fixed client.
StartRequest(debug, auth) ==
    [method |-> "GET", path |-> <<"/start", tool>>,
     baseURL |-> BaseURL(DefaultIss), Authorization |-> auth,
     task |-> "", tool |-> "", files |-> <<>>, debug |-> debug]

\* start() resumes from `await this.#auth.getToken()` with the token: it sets
\* the header of the fixed client and dispatches GET /start/{tool}.
StartGotToken(c) ==
    /\ op[c].pc = "token"
    /\ op[c].kind = "start"
    /\ gt[c].pc = "done"
    /\ fixedAuth' = Bearer(gt[c].val)
    /\ op' = [op EXCEPT ![c].pc = "net",
                        ![c].req = StartRequest(op[c].debug, Bearer(gt[c].val))]
    /\ UNCHANGED <<tool, task_id, server, remaining_files, files, startedOk, addedOk>>
    /\ UNCHANGED authVars
    /\ UNCHANGED errVars
    /\ UNCHANGED <<ctor, sessions, iss>>

\* Mutant: start() calls getToken() again when it threw.
StartTokenFailed_Retry(c) ==
    /\ op[c].pc = "token"
    /\ op[c].kind = "start"
    /\ gt[c].pc = "failed"
    /\ GetTokenBody(c)
    /\ UNCHANGED <<secretKey, age, now, verifyRet>>
    /\ UNCHANGED errVars
    /\ UNCHANGED <<ctor, sessions, iss>>
    /\ UNCHANGED taskVars

\* Mutant: start() swallows the error of getToken() and dispatches
\* GET /start/{tool} with the header the fixed client has.
StartTokenFailed_Dispatches(c) ==
    /\ op[c].pc = "token"
    /\ op[c].kind = "start"
    /\ gt[c].pc = "failed"
    /\ op' = [op EXCEPT ![c].pc = "net",
                        ![c].req = StartRequest(op[c].debug, fixedAuth)]
    /\ UNCHANGED <<tool, task_id, server, remaining_files, files, fixedAuth, startedOk, addedOk>>
    /\ UNCHANGED authVars
    /\ UNCHANGED errVars
    /\ UNCHANGED <<ctor, sessions, iss>>

\* getToken() threw: start() passes the error to classifyError, which rethrows it.
StartTokenFailed(c) ==
    /\ op[c].pc = "token"
    /\ op[c].kind = "start"
    /\ gt[c].pc = "failed"
    /\ op' = [op EXCEPT ![c].pc = "done", ![c].out = Rejected(gt[c].err)]
    /\ UNCHANGED <<tool, task_id, server, remaining_files, files, fixedAuth, startedOk, addedOk>>
    /\ UNCHANGED authVars
    /\ UNCHANGED errVars
    /\ UNCHANGED <<ctor, sessions, iss>>

\* Mutant: the task-scoped client is bound to the fixed API host instead of
\* the assigned server.
StartedServer_FixedHost(d, tok) == NewServer(DefaultIss, tok)

\* Mutant: a start() on a started session keeps the client it finds.
StartedServer_KeepsFirst(d, tok) == IF server.set THEN server ELSE NewServer(d.server, tok)

\* The task-scoped client start() creates for response data d and token tok.
StartedServer(d, tok) == NewServer(d.server, tok)

\* Mutant: a start() on a session that has a files list keeps the list.
StartResponse_KeepsFiles(c) ==
    /\ op[c].pc = "net"
    /\ op[c].kind = "start"
    /\ \E d \in StartDatas :
          /\ IF StartAssigns(d, op[c].debug)
             THEN /\ server' = StartedServer(d, gt[c].val)
                  /\ task_id' = d.task
                  /\ remaining_files' = d.remaining_files
                  /\ files' = IF files.set THEN files ELSE FileList(<<>>)
                  /\ startedOk' = TRUE
                  /\ addedOk' = FALSE
             ELSE UNCHANGED <<task_id, server, remaining_files, files, startedOk, addedOk>>
          /\ op' = [op EXCEPT ![c].pc = "done", ![c].resp = d,
                              ![c].out =
                                 IF op[c].debug
                                 THEN Resolved(d)
                                 ELSE IF ~StartDataValid(d)
                                 THEN Rejected(ErrInvalidResponse)
                                 ELSE Resolved([server |-> d.server,
                                                task_id |-> d.task,
                                                remaining_files |-> d.remaining_files])]
    /\ UNCHANGED <<tool, fixedAuth>>
    /\ UNCHANGED authVars
    /\ UNCHANGED errVars
    /\ UNCHANGED <<ctor, sessions, iss>>

\* GET /start/{tool} is answered with data d.
StartResponse(c) ==
    /\ op[c].pc = "net"
    /\ op[c].kind = "start"
    /\ \E d \in StartDatas :
          /\ IF StartAssigns(d, op[c].debug)
             THEN /\ server' = StartedServer(d, gt[c].val)
                  /\ task_id' = d.task
                  /\ remaining_files' = d.remaining_files
                  /\ files' = FileList(<<>>)
                  /\ startedOk' = TRUE
                  /\ addedOk' = FALSE
             ELSE UNCHANGED <<task_id, server, remaining_files, files, startedOk, addedOk>>
          /\ op' = [op EXCEPT ![c].pc = "done", ![c].resp = d,
                              ![c].out =
                                 IF op[c].debug
                                 THEN Resolved(d)
                                 ELSE IF ~StartDataValid(d)
                                 THEN Rejected(ErrInvalidResponse)
                                 ELSE Resolved([server |-> d.server,
                                                task_id |-> d.task,
                                                remaining_files |-> d.remaining_files])]
    /\ UNCHANGED <<tool, fixedAuth>>
    /\ UNCHANGED authVars
    /\ UNCHANGED errVars
    /\ UNCHANGED <<ctor, sessions, iss>>

\* GET /start/{tool} fails: classifyError raises.
StartFailure(c) ==
    /\ op[c].pc = "net"
    /\ op[c].kind = "start"
    /\ \E e \in TransportErrors :
          op' = [op EXCEPT ![c].pc = "done", ![c].out = Rejected(e)]
    /\ UNCHANGED <<tool, task_id, server, remaining_files, files, fixedAuth, startedOk, addedOk>>
    /\ UNCHANGED authVars
    /\ UNCHANGED errVars
    /\ UNCHANGED <<ctor, sessions, iss>>

\* The caller is done with the outcome of the method in slot c; the slot is free.
Release(c) ==
    /\ op[c].pc = "done"
    /\ op' = [op EXCEPT ![c] = OpIdle]
    /\ gt' = [gt EXCEPT ![c] = GtIdle]
    /\ UNCHANGED <<secretKey, age, now, token, verifyRet>>
    /\ UNCHANGED errVars
    /\ UNCHANGED <<ctor, sessions, iss>>
    /\ UNCHANGED <<tool, task_id, server, remaining_files, files, fixedAuth, startedOk, addedOk>>

\* The setters for internal and testing usage.
_setTaskId(x) ==
    /\ task_id' = x
    /\ UNCHANGED <<tool, server, remaining_files, files, fixedAuth, op, startedOk, addedOk>>
    /\ UNCHANGED authVars
    /\ UNCHANGED errVars
    /\ UNCHANGED <<ctor, sessions, iss>>

_setServer(x) ==
    /\ server' = x
    /\ UNCHANGED <<tool, task_id, remaining_files, files, fixedAuth, op, startedOk, addedOk>>
    /\ UNCHANGED authVars
    /\ UNCHANGED errVars
    /\ UNCHANGED <<ctor, sessions, iss>>

_setUploadedFiles(x) ==
    /\ files' = x
    /\ UNCHANGED <<tool, task_id, server, remaining_files, fixedAuth, op, startedOk, addedOk>>
    /\ UNCHANGED authVars
    /\ UNCHANGED errVars
    /\ UNCHANGED <<ctor, sessions, iss>>

\* The values the tests hand to the setters.
SetTaskIds == {"", "task-id"}
SetServers == {NoServer, NewServer("server", Undefined)}
SetFiles == {NoFiles, FileList(<<>>), FileList(<<AFile>>)}

\* ------------------------------------------------------ ILoveIMGApi

ErrNeedSecretKey == "Secret key required for list tasks."

\* Mutant: listTasks() validates its options before it looks at the secret key.
listTasks_ValidatesFirst(c) ==
    /\ op[c].pc = "idle"
    /\ gt[c].pc = "idle"
    /\ \E debug, optsOk \in BOOLEAN :
          op' = [op EXCEPT ![c] = [OpIdle EXCEPT !.kind = "listTasks", !.debug = debug,
                                                 !.optsOk = optsOk, !.pc = "vopts"]]
    /\ UNCHANGED <<tool, task_id, server, remaining_files, files, fixedAuth, startedOk, addedOk>>
    /\ UNCHANGED authVars
    /\ UNCHANGED errVars
    /\ UNCHANGED <<ctor, sessions, iss>>

\* listTasks(options) up to its first await: it throws without a secret key,
\* or suspends in the validation of its options.
listTasks(c) ==
    /\ op[c].pc = "idle"
    /\ gt[c].pc = "idle"
    /\ \E debug, optsOk \in BOOLEAN :
          LET call == [OpIdle EXCEPT !.kind = "listTasks", !.debug = debug,
                                     !.optsOk = optsOk]
          IN  op' = [op EXCEPT ![c] =
                       IF secretKey = ""
                       THEN [call EXCEPT !.pc = "done", !.out = Rejected(ErrNeedSecretKey)]
                       ELSE [call EXCEPT !.pc = "vopts"]]
    /\ UNCHANGED <<tool, task_id, server, remaining_files, files, fixedAuth, startedOk, addedOk>>
    /\ UNCHANGED authVars
    /\ UNCHANGED errVars
    /\ UNCHANGED <<ctor, sessions, iss>>

\* listTasks() resumes from the validation: a ZodError, or the call of getToken().
ListValidated(c) ==
    /\ op[c].pc = "vopts"
    /\ op[c].kind = "listTasks"
    /\ IF ~op[c].optsOk
       THEN /\ op' = [op EXCEPT ![c].pc = "done", ![c].out = Rejected(ErrZod)]
            /\ UNCHANGED <<token, gt>>
       ELSE /\ op' = [op EXCEPT ![c].pc = "token"]
            /\ GetTokenBody(c)
    /\ UNCHANGED <<secretKey, age, now, verifyRet>>
    /\ UNCHANGED errVars
    /\ UNCHANGED <<ctor, sessions, iss>>
    /\ UNCHANGED <<tool, task_id, server, remaining_files, files, fixedAuth, startedOk, addedOk>>

\* The request of listTasks() on the fixed client.
ListRequest(debug, auth) ==
    [method |-> "POST", path |-> <<"/task">>,
     baseURL |-> BaseURL(DefaultIss), Authorization |-> auth,
     secret_key |-> secretKey, debug |-> debug]

\* listTasks() resumes from `await this.#auth.getToken()` with the token: it
\* sets the header of the fixed client and dispatches POST /task.  (With a
\* secret key the token is signed locally, so getToken() has no failing path.)
ListGotToken(c) ==
    /\ op[c].pc = "token"
    /\ op[c].kind = "listTasks"
    /\ gt[c].pc = "done"
    /\ fixedAuth' = Bearer(gt[c].val)
    /\ op' = [op EXCEPT ![c].pc = "net",
                        ![c].req = ListRequest(op[c].debug, Bearer(gt[c].val))]
    /\ UNCHANGED <<tool, task_id, server, remaining_files, files, startedOk, addedOk>>
    /\ UNCHANGED authVars
    /\ UNCHANGED errVars
    /\ UNCHANGED <<ctor, sessions, iss>>

\* POST /task is answered: listTasks() returns the body.
ListResponse(c) ==
    /\ op[c].pc = "net"
    /\ op[c].kind = "listTasks"
    /\ op' = [op EXCEPT ![c].pc = "done", ![c].resp = Response,
                        ![c].out = Resolved(Response.data)]
    /\ UNCHANGED <<tool, task_id, server, remaining_files, files, fixedAuth, startedOk, addedOk>>
    /\ UNCHANGED authVars
    /\ UNCHANGED errVars
    /\ UNCHANGED <<ctor, sessions, iss>>

\* POST /task fails: classifyError raises.
ListFailure(c) ==
    /\ op[c].pc = "net"
    /\ op[c].kind = "listTasks"
    /\ \E e \in TransportErrors :
          op' = [op EXCEPT ![c].pc = "done", ![c].out = Rejected(e)]
    /\ UNCHANGED <<tool, task_id, server, remaining_files, files, fixedAuth, startedOk, addedOk>>
    /\ UNCHANGED authVars
    /\ UNCHANGED errVars
    /\ UNCHANGED <<ctor, sessions, iss>>

\* ------------------------------------------------------------ Task

\* The methods of a Task, the handle on a task started elsewhere.
DetachedMethods == {"Task.download", "Task.details"}

\* After new Task(publicKey, secretKey, taskId, taskServer, params): #server
\* is a client for the task's server that carries no Authorization header.
DetachedServer(host) ==
    [set |-> TRUE, baseURL |-> BaseURL(host), Authorization |-> Undefined]

\* download(options) or details(options) of a Task up to its first await, the
\* validation of the options; there is no precondition.
DetachedCall(c, kind, debug, optsOk) ==
    /\ op[c].pc = "idle"
    /\ gt[c].pc = "idle"
    /\ op' = [op EXCEPT ![c] = [OpIdle EXCEPT !.kind = kind, !.pc = "vopts",
                                   !.debug = debug, !.optsOk = optsOk]]
    /\ UNCHANGED <<tool, task_id, server, remaining_files, files, fixedAuth, startedOk, addedOk>>
    /\ UNCHANGED authVars
    /\ UNCHANGED errVars
    /\ UNCHANGED <<ctor, sessions, iss>>

Task_download(c) == \E debug, optsOk \in BOOLEAN : DetachedCall(c, "Task.download", debug, optsOk)
Task_details(c) == \E debug, optsOk \in BOOLEAN : DetachedCall(c, "Task.details", debug, optsOk)

\* The call resumes from the validation: a ZodError, or the call of getToken().
DetachedValidated(c) ==
    /\ op[c].pc = "vopts"
    /\ op[c].kind \in DetachedMethods
    /\ IF ~op[c].optsOk
       THEN /\ op' = [op EXCEPT ![c].pc = "done", ![c].out = Rejected(ErrZod)]
            /\ UNCHANGED <<token, gt>>
       ELSE /\ op' = [op EXCEPT ![c].pc = "token"]
            /\ GetTokenBody(c)
    /\ UNCHANGED <<secretKey, age, now, verifyRet>>
    /\ UNCHANGED errVars
    /\ UNCHANGED <<ctor, sessions, iss>>
    /\ UNCHANGED <<tool, task_id, server, remaining_files, files, fixedAuth, startedOk, addedOk>>

\* Mutant: the header is only set while the client carries none.
DetachedHeader_SetOnce(c) ==
    IF server.Authorization # Undefined THEN server.Authorization ELSE Bearer(gt[c].val)

\* The header the call writes to the defaults of #server.
DetachedHeader(c) == Bearer(gt[c].val)

\* The request of a Task method, with the header the client carries by then.
DetachedRequest(kind, debug, auth) ==
    [method |-> "GET",
     path |-> IF kind = "Task.download" THEN <<"/download", task_id>>
                                        ELSE <<"/task", task_id>>,
     baseURL |-> server.baseURL, Authorization |-> auth,
     task |-> "", tool |-> "", files |-> <<>>, debug |-> debug]

\* The call resumes from `await this.#auth.getToken()` with the token: it sets
\* the header of #server and dispatches its request.
DetachedGotToken(c) ==
    /\ op[c].pc = "token"
    /\ op[c].kind \in DetachedMethods
    /\ gt[c].pc = "done"
    /\ server' = [server EXCEPT !.Authorization = DetachedHeader(c)]
    /\ op' = [op EXCEPT ![c].pc = "net",
                        ![c].req = DetachedRequest(op[c].kind, op[c].debug,
                                                   DetachedHeader(c))]
    /\ UNCHANGED <<tool, task_id, remaining_files, files, fixedAuth, startedOk, addedOk>>
    /\ UNCHANGED authVars
    /\ UNCHANGED errVars
    /\ UNCHANGED <<ctor, sessions, iss>>

\* getToken() threw: the call passes the error to classifyError, which
\* rethrows it.
DetachedTokenFailed(c) ==
    /\ op[c].pc = "token"
    /\ op[c].kind \in DetachedMethods
    /\ gt[c].pc = "failed"
    /\ op' = [op EXCEPT ![c].pc = "done", ![c].out = Rejected(gt[c].err)]
    /\ UNCHANGED <<tool, task_id, server, remaining_files, files, fixedAuth, startedOk, addedOk>>
    /\ UNCHANGED authVars
    /\ UNCHANGED errVars
    /\ UNCHANGED <<ctor, sessions, iss>>

\* The task server answers: download() returns the response (its data in
\* debug mode), details() the data.
DetachedResponse(c) ==
    /\ op[c].pc = "net"
    /\ op[c].kind \in DetachedMethods
    /\ op' = [op EXCEPT ![c].pc = "done", ![c].resp = Response,
                        ![c].out = Resolved(IF op[c].kind = "Task.download" /\ ~op[c].debug
                                            THEN Response ELSE Response.data)]
    /\ UNCHANGED <<tool, task_id, server, remaining_files, files, fixedAuth, startedOk, addedOk>>
    /\ UNCHANGED authVars
    /\ UNCHANGED errVars
    /\ UNCHANGED <<ctor, sessions, iss>>

\* The request fails: classifyError raises.
DetachedFailure(c) ==
    /\ op[c].pc = "net"
    /\ op[c].kind \in DetachedMethods
    /\ \E e \in TransportErrors :
          op' = [op EXCEPT ![c].pc = "done", ![c].out = Rejected(e)]
    /\ UNCHANGED <<tool, task_id, server, remaining_files, files, fixedAuth, startedOk, addedOk>>
    /\ UNCHANGED authVars
    /\ UNCHANGED errVars
    /\ UNCHANGED <<ctor, sessions, iss>>

\* The caller awaits each call before it makes the next: one slot is in use.
Sequential == {1}

\* After new Auth(publicKey, secretKey, params): no token is cached.  The age
\* is only read when signing locally, so without a secretKey it is left at its
\* default.
InitAuthWith(issuers) ==
    /\ secretKey \in SecretKeys
    /\ age \in IF secretKey = "" THEN {DefaultAge} ELSE Ages \cup {DefaultAge}
    /\ iss \in IF secretKey = "" THEN {DefaultIss} ELSE issuers
    /\ now = 0
    /\ token = Undefined
    /\ gt = [c \in Slots |-> GtIdle]
    /\ verifyRet = Undefined

\* The same with the issuer left at its default.
InitAuth == InitAuthWith({DefaultIss})

\* After new TaskI(auth, fixedServer, taskType), the first session newTask()
\* returns: every field but the tool is undefined.
InitTask(tools) ==
    /\ tool \in tools
    /\ sessions = 1
    /\ task_id = ""
    /\ server = NoServer
    /\ remaining_files = 0
    /\ files = NoFiles
    /\ fixedAuth = Undefined
    /\ op = [c \in Slots |-> OpIdle]
    /\ startedOk = FALSE
    /\ addedOk = FALSE

\* The token manager on its own: overlapping direct getToken() calls, and
\* verifyToken() calls in between.
NextAuth ==
    \/ \E c \in Slots : GetTokenCall(c)
    \/ \E c \in Slots : AuthResponse(c)
    \/ \E c \in Slots : AuthFailure(c)
    \/ \E c \in Slots : GetTokenResume(c)
    \/ \E c \in Slots : GetTokenRelease(c)
    \/ VerifyTokenDiscarded
    \/ Tick

\* No task session is in play: its fields stay as constructed.
InitAuthOnly ==
    /\ InitAuth
    /\ NoClassify
    /\ InitTask({"convertimage"})

SpecAuth == InitAuthOnly /\ [][NextAuth]_vars

\* The token manager with one getToken() call at a time and verifyToken()
\* calls whose return value is looked at.
NextVerify ==
    \/ \E c \in Sequential : GetTokenCall(c)
    \/ \E c \in Sequential : AuthResponse(c)
    \/ \E c \in Sequential : AuthFailure(c)
    \/ \E c \in Sequential : GetTokenResume(c)
    \/ \E c \in Sequential : GetTokenRelease(c)
    \/ VerifyTokenCall
    \/ Tick

SpecVerify == InitAuthOnly /\ [][NextVerify]_vars

\* The token manager constructed with any of the issuers.
InitSign ==
    /\ InitAuthWith(Issuers)
    /\ NoClassify
    /\ InitTask({"convertimage"})

SpecSign == InitSign /\ [][NextVerify]_vars

\* The token manager whose cache the caller also assigns to.
NextAssigned ==
    \/ NextVerify
    \/ SetToken

SpecAssigned == InitAuthOnly /\ [][NextAssigned]_vars

\* A task session with its token manager, as newTask() hands it out.  The age
\* of locally signed tokens is left at its default.
InitSession ==
    /\ InitAuth
    /\ NoClassify
    /\ age = DefaultAge
    /\ InitTask({"upscaleimage", "removebackgroundimage"})

\* A step of a call of a public method in slot c.  process() never gets past
\* its preconditions here (#files is only ever set to []), so the steps after
\* them are left to NextInternal.
PublicStep(c) ==
    \/ start(c)
    \/ StartValidated(c)
    \/ AuthResponse(c)
    \/ AuthFailure(c)
    \/ GetTokenResume(c)
    \/ StartGotToken(c)
    \/ StartTokenFailed(c)
    \/ StartResponse(c)
    \/ StartFailure(c)
    \/ addFile(c)
    \/ deleteFile(c)
    \/ process(c)
    \/ download(c)
    \/ details(c)
    \/ delete(c)
    \/ OptionsValidated(c)
    \/ MethodResponse(c)
    \/ MethodFailure(c)
    \/ Release(c)

NextTask ==
    \/ \E c \in Sequential : PublicStep(c)
    \/ Tick

SpecTask == InitSession /\ [][NextTask]_vars

\* The same session with the setters the tests use, within one second.
NextInternal ==
    \/ \E c \in Sequential : PublicStep(c)
    \/ \E c \in Sequential : ToolOptionsValidated(c)
    \/ \E x \in SetTaskIds : _setTaskId(x)
    \/ \E x \in SetServers : _setServer(x)
    \/ \E x \in SetFiles : _setUploadedFiles(x)

SpecInternal == InitSession /\ [][NextInternal]_vars

\* Two calls in flight at once on one session: the least that interleaves.
Overlapping == {1, 2}

\* A step of a start() call in slot c.
StartStep(c) ==
    \/ start(c)
    \/ StartValidated(c)
    \/ AuthResponse(c)
    \/ AuthFailure(c)
    \/ GetTokenResume(c)
    \/ StartGotToken(c)
    \/ StartTokenFailed(c)
    \/ StartResponse(c)
    \/ StartFailure(c)
    \/ Release(c)

\* A step of a call of one of the six other public methods in slot c.
MethodStep(c) ==
    \/ addFile(c)
    \/ deleteFile(c)
    \/ process(c)
    \/ download(c)
    \/ details(c)
    \/ delete(c)
    \/ OptionsValidated(c)
    \/ MethodResponse(c)
    \/ MethodFailure(c)
    \/ Release(c)

\* Overlapping start() calls on one session, with calls of the other public
\* methods in between, within one second.
NextOverlap ==
    \/ \E c \in Overlapping : StartStep(c)
    \/ \E c \in Sequential : MethodStep(c)

SpecOverlap == InitSession /\ [][NextOverlap]_vars

\* Calls of the six methods on a session that has files, process() getting
\* as far as its request, with start() calls on the same session in flight at
\* the same time, within one second.
NextRace ==
    \/ \E c \in {1} : MethodStep(c)
    \/ \E c \in {1} : ToolOptionsValidated(c)
    \/ \E c \in {2} : StartStep(c)
    \/ _setUploadedFiles(FileList(<<AFile>>))

SpecRace == InitSession /\ [][NextRace]_vars

\* addFile, deleteFile and process calls whose arguments carry keys of the
\* request body, on a session that start() calls start and that has files.
NextKeys ==
    \/ \E c \in Sequential : StartStep(c)
    \/ \E c \in Sequential : KeyedCall(c)
    \/ \E c \in Sequential : OptionsValidated(c)
    \/ \E c \in Sequential : ToolOptionsValidated(c)
    \/ \E c \in Sequential : MethodResponse(c)
    \/ \E c \in Sequential : MethodFailure(c)
    \/ _setUploadedFiles(FileList(<<AFile>>))

SpecKeys == InitSession /\ [][NextKeys]_vars

\* After new Task('publicKey', secretKey, 'task-id', 'task-server', params); a
\* Task has no tool.
InitDetached ==
    /\ InitAuth
    /\ NoClassify
    /\ tool = ""
    /\ sessions = 0
    /\ task_id = "task-id"
    /\ server = DetachedServer("task-server")
    /\ remaining_files = 0
    /\ files = NoFiles
    /\ fixedAuth = Undefined
    /\ op = [c \in Slots |-> OpIdle]
    /\ startedOk = FALSE
    /\ addedOk = FALSE

\* A step of a call of a Task method in slot c.
DetachedStep(c) ==
    \/ Task_download(c)
    \/ Task_details(c)
    \/ DetachedValidated(c)
    \/ AuthResponse(c)
    \/ AuthFailure(c)
    \/ GetTokenResume(c)
    \/ DetachedGotToken(c)
    \/ DetachedTokenFailed(c)
    \/ DetachedResponse(c)
    \/ DetachedFailure(c)
    \/ Release(c)

\* The caller awaits each call of the Task before it makes the next.
NextDetached ==
    \/ \E c \in Sequential : DetachedStep(c)
    \/ Tick

SpecDetached == InitDetached /\ [][NextDetached]_vars

\* classifyError on its own, for each value it can be handed.
InitClassify ==
    /\ InitAuth
    /\ secretKey = ""
    /\ InitTask({"convertimage"})
    /\ error \in Errors
    /\ thrown = Undefined
    /\ ctor = Undefined

NextClassify == ClassifyErrorCall

SpecClassify == InitClassify /\ [][NextClassify]_vars

\* A step of a listTasks() call in slot c.
ListStep(c) ==
    \/ listTasks(c)
    \/ ListValidated(c)
    \/ ListGotToken(c)
    \/ ListResponse(c)
    \/ ListFailure(c)

\* Every operation of an ILoveIMGApi instance and of a task session made
\* from it, one call at a time, within one second; the test setters let
\* process() get to its request.
NextCalls ==
    \/ NextInternal
    \/ \E c \in Sequential : ListStep(c)
    \/ \E c \in Sequential : GetTokenCall(c)
    \/ \E c \in Sequential : GetTokenRelease(c)

SpecCalls == InitSession /\ [][NextCalls]_vars

\* An entry point with a task session, or a Task: the object is one or the
\* other from its construction on.
InitObjects == InitSession \/ InitDetached

NextObjects ==
    \/ tool # "" /\ NextCalls
    \/ tool = "" /\ NextDetached

SpecObjects == InitObjects /\ [][NextObjects]_vars

\* Mutant: newTask() gives the session a token manager of its own.
newTask_OwnAuth ==
    /\ sessions < MaxSessions
    /\ \A c \in Slots : op[c].pc = "idle" /\ gt[c].pc = "idle"
    /\ \E type \in ToolTypes : tool' = type
    /\ sessions' = sessions + 1
    /\ task_id' = ""
    /\ server' = NoServer
    /\ remaining_files' = 0
    /\ files' = NoFiles
    /\ startedOk' = FALSE
    /\ addedOk' = FALSE
    /\ token' = Undefined
    /\ UNCHANGED <<secretKey, age, now, gt, verifyRet>>
    /\ UNCHANGED <<fixedAuth, op>>
    /\ UNCHANGED errVars
    /\ UNCHANGED ctor
    /\ UNCHANGED iss

\* newTask(type) with a valid tool type, the caller going on with the session
\* it returns: new TaskI(this.#auth, this.#fixedServer, type) has the token
\* manager and the fixed client of the entry point, and fields of its own.
newTask ==
    /\ sessions < MaxSessions
    /\ \A c \in Slots : op[c].pc = "idle" /\ gt[c].pc = "idle"
    /\ \E type \in ToolTypes : tool' = type
    /\ sessions' = sessions + 1
    /\ task_id' = ""
    /\ server' = NoServer
    /\ remaining_files' = 0
    /\ files' = NoFiles
    /\ startedOk' = FALSE
    /\ addedOk' = FALSE
    /\ token' = token
    /\ UNCHANGED <<secretKey, age, now, gt, verifyRet>>
    /\ UNCHANGED <<fixedAuth, op>>
    /\ UNCHANGED errVars
    /\ UNCHANGED ctor
    /\ UNCHANGED iss

\* An entry point as constructed, with the first session it hands out; the
\* age of locally signed tokens is whatever the params say.
InitEntryPoint ==
    /\ InitAuth
    /\ NoClassify
    /\ InitTask({"upscaleimage"})

\* start() calls on the sessions of one entry point and listTasks() calls on
\* the entry point, one call at a time, while the clock advances.
NextShared ==
    \/ \E c \in Sequential : StartStep(c)
    \/ \E c \in Sequential : ListStep(c)
    \/ newTask
    \/ Tick

SpecShared == InitEntryPoint /\ [][NextShared]_vars

\* A started session of any tool, with the setters the tests use to give it
\* a task id, a server and files.
InitProcess ==
    /\ InitAuth
    /\ NoClassify
    /\ secretKey = ""
    /\ InitTask(ToolTypes)

\* A step of a process() call in slot c, its tool options being any of
\* ToolOptionsArgs.
ProcessStep(c) ==
    \/ processWith(c, ToolOptionsArgs)
    \/ OptionsValidated(c)
    \/ ToolOptionsValidated(c)
    \/ MethodResponse(c)
    \/ MethodFailure(c)
    \/ Release(c)

\* process() calls, one at a time, on a session the setters prepare.
NextProcess ==
    \/ \E c \in Sequential : ProcessStep(c)
    \/ \E x \in SetTaskIds : _setTaskId(x)
    \/ \E x \in SetServers : _setServer(x)
    \/ \E x \in SetFiles : _setUploadedFiles(x)

SpecProcess == InitProcess /\ [][NextProcess]_vars

\* ------------------------------------------------------ constructors

\* The three classes whose constructors take the keys.
Classes == {"Auth", "ILoveIMGApi", "Task"}

ErrPublicKey == "publicKey is required and must be a string."
ErrSecretKey == "secretKey must be a string."
ErrTaskArgs == "taskId and taskServer are required and should be string."

\* The text of a string of at most one piece.
Text(v) == IF v.v = <<>> THEN "" ELSE v.v[1]

\* Mutant: the secretKey is tested before the publicKey.
AuthConstructor_SecretFirst(publicKey, secret, paramsOk) ==
    LET sk == Default(secret, JsString(<<>>))
    IN  IF Truthy(sk) /\ ~IsString(sk) THEN ErrSecretKey
        ELSE IF ~Truthy(publicKey) \/ ~IsString(publicKey) THEN ErrPublicKey
        ELSE IF ~paramsOk THEN ErrZod
        ELSE ""

\* new Auth(publicKey, secretKey = '', params = {}): the message of the error
\* it throws, "" when it returns.  paramsOk: params pass SelfSignedTokenOptions.
AuthConstructor(publicKey, secret, paramsOk) ==
    LET sk == Default(secret, JsString(<<>>))
    IN  IF ~Truthy(publicKey) \/ ~IsString(publicKey) THEN ErrPublicKey
        ELSE IF Truthy(sk) /\ ~IsString(sk) THEN ErrSecretKey
        ELSE IF ~paramsOk THEN ErrZod
        ELSE ""

\* new ILoveIMGApi(publicKey, secretKey = '', params = {}): stores the keys
\* and constructs its Auth.
ILoveIMGApiConstructor(publicKey, secret, paramsOk) ==
    AuthConstructor(publicKey, Default(secret, JsString(<<>>)), paramsOk)

\* Mutant: the Task constructs its Auth before it tests taskId and taskServer.
TaskConstructor_KeysFirst(publicKey, secret, taskId, taskServer, paramsOk) ==
    LET e == AuthConstructor(publicKey, Default(secret, JsString(<<>>)), paramsOk)
    IN  IF e # "" THEN e
        ELSE IF \/ ~Truthy(taskId) \/ ~Truthy(taskServer)
                \/ ~IsString(taskId) \/ ~IsString(taskServer)
        THEN ErrTaskArgs
        ELSE ""

\* new Task(publicKey, secretKey = '', taskId, taskServer, params = {}).
TaskConstructor(publicKey, secret, taskId, taskServer, paramsOk) ==
    IF \/ ~Truthy(taskId) \/ ~Truthy(taskServer)
       \/ ~IsString(taskId) \/ ~IsString(taskServer)
    THEN ErrTaskArgs
    ELSE AuthConstructor(publicKey, Default(secret, JsString(<<>>)), paramsOk)

\* What the constructor of a.class throws on the arguments a.
ConstructorError(a) ==
    CASE a.class = "Auth" -> AuthConstructor(a.publicKey, a.secretKey, a.paramsOk)
      [] a.class = "ILoveIMGApi" ->
            ILoveIMGApiConstructor(a.publicKey, a.secretKey, a.paramsOk)
      [] a.class = "Task" ->
            TaskConstructor(a.publicKey, a.secretKey, a.taskId, a.taskServer, a.paramsOk)

\* The values the tests hand the constructors for a key or a task field whose
\* valid value is s: nothing, null, the empty string, s, numbers, an object.
Arguments(s) ==
    {JsUndefined, JsNull, JsString(<<>>), JsString(<<s>>), JsNumber(0),
     JsNumber(21), [t |-> "object"]}

\* The constructor calls: Auth and ILoveIMGApi take no task fields.
ConstructorCalls ==
    [class : {"Auth", "ILoveIMGApi"}, publicKey : Arguments("publicKey"),
     secretKey : Arguments("secretKey"), taskId : {JsUndefined},
     taskServer : {JsUndefined}, paramsOk : BOOLEAN, out : {Undefined}]
    \cup
    [class : {"Task"}, publicKey : Arguments("publicKey"),
     secretKey : Arguments("secretKey"), taskId : Arguments("task-id"),
     taskServer : Arguments("task-server"), paramsOk : BOOLEAN, out : {Undefined}]

\* new Auth(...), new ILoveIMGApi(...) or new Task(...) runs: it throws, or it
\* sets the fields of the object.  A secretKey that is falsy without being a
\* string is stored as given and read as absent ever after.  No constructor
\* makes a request: axios.create only builds a client.
Construct ==
    /\ ctor # Undefined
    /\ ctor.out = Undefined
    /\ LET e == ConstructorError(ctor)
           sk == Default(ctor.secretKey, JsString(<<>>))
       IN  IF e # ""
           THEN /\ ctor' = [ctor EXCEPT !.out = Rejected(e)]
                /\ UNCHANGED <<secretKey, task_id, server>>
           ELSE /\ ctor' = [ctor EXCEPT !.out = Resolved(ctor.class)]
                /\ secretKey' = IF IsString(sk) THEN Text(sk) ELSE ""
                /\ IF ctor.class = "Task"
                   THEN /\ task_id' = Text(ctor.taskId)
                        /\ server' = DetachedServer(Text(ctor.taskServer))
                   ELSE UNCHANGED <<task_id, server>>
    /\ token' = Undefined
    /\ UNCHANGED <<age, now, gt, verifyRet>>
    /\ UNCHANGED <<tool, remaining_files, files, fixedAuth, op, startedOk, addedOk>>
    /\ UNCHANGED errVars
    /\ UNCHANGED sessions
    /\ UNCHANGED iss

\* Before a constructor runs there is no object: no key, no token, no task.
InitConstruct ==
    /\ ctor \in ConstructorCalls
    /\ secretKey = ""
    /\ age = DefaultAge
    /\ now = 0
    /\ token = Undefined
    /\ gt = [c \in Slots |-> GtIdle]
    /\ verifyRet = Undefined
    /\ tool = ""
    /\ task_id = ""
    /\ server = NoServer
    /\ remaining_files = 0
    /\ files = NoFiles
    /\ fixedAuth = Undefined
    /\ op = [c \in Slots |-> OpIdle]
    /\ startedOk = FALSE
    /\ addedOk = FALSE
    /\ error = JsUndefined
    /\ thrown = Undefined
    /\ sessions = 0
    /\ iss = DefaultIss

NextConstruct == Construct

SpecConstruct == InitConstruct /\ [][NextConstruct]_vars

\* ------------------------------------------------------ observations

\* A getToken() call begins in slot c.
GtCalled(c) == gt[c].pc = "idle" /\ gt'[c].pc # "idle"

\* The getToken() call in slot c resolves.
GtResolved(c) == gt[c].pc # "done" /\ gt'[c].pc = "done"

\* The getToken() call in slot c performed an issuance: it signed, or it
\* dispatched POST /auth.
Issued(g) == g.signed \/ g.req # Undefined

\* The number of issuances the calls in the slots performed.
Issuances == Cardinality({c \in Slots : Issued(gt[c])})

\* ------------------------------------------------------------ claims

C2_NeedFiles ==
    [][\A c \in Slots :
          ( /\ op[c].pc = "idle" /\ op'[c].kind = "process"
            /\ task_id # "" /\ server.set
            /\ (~files.set \/ files.list = <<>>) ) =>
              /\ op'[c].pc = "done"
              /\ op'[c].out = Rejected(ErrNeedFiles)
              /\ op'[c].req = Undefined
    ]_vars

\* C2 witness: process() was rejected with the "add files first" error on a
\* session whose taskId and server are set and whose uploadedFiles is unset.
C2_Witness ==
    \E c \in Slots :
        /\ op[c].kind = "process"
        /\ op[c].out = Rejected(ErrNeedFiles)
        /\ task_id # "" /\ server.set /\ ~files.set

\* C3 (as claimed): once start() and then a non-debug addFile() have
\* succeeded, a process() call with valid options passes its preconditions,
\* and the POST /process it dispatches carries a non-empty files list.
C3_DocumentedWorkflow ==
    [][\A c \in Slots :
          /\ ( /\ op[c].pc = "idle" /\ op'[c].kind = "process"
               /\ startedOk /\ addedOk
               /\ op'[c].optsOk /\ ToolOptionsPass(tool, op'[c].toolOk) ) =>
                 op'[c].pc = "vopts"
          /\ (op[c].kind = "process" /\ op[c].pc # "net" /\ op'[c].pc = "net") =>
                 (op'[c].req.path = <<"/process">> /\ op'[c].req.files # <<>>)
    ]_vars

\* C10: when GET /start/{tool} of a non-debug start() is answered with truthy
\* server, task and remaining_files, the call stores taskId and
\* remainingFiles, sets uploadedFiles to an empty list, creates a client with
\* base URL https://{server}/v1 and the header "Bearer {token}" of the token
\* this call's getToken() resolved with, and resolves with
\* {server, task_id, remaining_files}.
C10_StartSuccess ==
    [][\A c \in Slots :
          ( /\ op[c].kind = "start" /\ op[c].pc = "net" /\ ~op[c].debug
            /\ op'[c].pc = "done"
            /\ op'[c].resp # Undefined
            /\ op'[c].resp.present
            /\ op'[c].resp.server # "" /\ op'[c].resp.task # ""
            /\ op'[c].resp.remaining_files # 0 ) =>
              /\ task_id' = op'[c].resp.task
              /\ remaining_files' = op'[c].resp.remaining_files
              /\ files' = [set |-> TRUE, list |-> <<>>]
              /\ server' = [set |-> TRUE,
                            baseURL |-> <<"https", op'[c].resp.server, "v1">>,
                            Authorization |-> <<"Bearer", gt[c].val>>]
              /\ gt[c].pc = "done" /\ gt[c].val # Undefined
              /\ op[c].req.Authorization = <<"Bearer", gt[c].val>>
              /\ op'[c].out = Resolved([server |-> op'[c].resp.server,
                                        task_id |-> op'[c].resp.task,
                                        remaining_files |-> op'[c].resp.remaining_files])
    ]_vars

\* C10 witness: a second start() has just succeeded with the response
\* {server-2, task-2, 7} on a session started before with another response.
C10_Witness ==
    \E c \in Slots :
        /\ op[c].kind = "start" /\ op[c].pc = "done"
        /\ op[c].out = Resolved([server |-> "server-2", task_id |-> "task-2",
                                 remaining_files |-> 7])
        /\ task_id = "task-2"
        /\ remaining_files = 7
        /\ server.set /\ server.baseURL = <<"https", "server-2", "v1">>
        /\ files = [set |-> TRUE, list |-> <<>>]

\* C4: when the cache holds a token that is still valid (now < exp), a
\* getToken() call resolves with exactly that token without reaching an await,
\* signs nothing, dispatches nothing and leaves the cache as it is; and when
\* one call has issued and cached a token and nothing else is in flight, a
\* following call within the token's lifetime returns the identical token and
\* the issuances of the two calls total exactly one.
C4_CachedTokenReused ==
    [][\A c \in Slots :
          (GtCalled(c) /\ token # Undefined /\ now < token.exp) =>
              /\ gt'[c].pc = "done"
              /\ gt'[c].val = token
              /\ ~Issued(gt'[c])
              /\ token' = token
              /\ \A c1 \in Slots \ {c} :
                    ( /\ gt[c1].pc = "done"
                      /\ Issued(gt[c1])
                      /\ token = gt[c1].val
                      /\ \A o \in Slots \ {c1} : gt[o].pc = "idle" ) =>
                        /\ gt'[c].val = gt'[c1].val
                        /\ Issuances' = 1
    ]_vars

\* C4 witness: one call issued a token, a second call returned the same token
\* from the cache without issuing.
C4_Witness ==
    \E c1, c2 \in Slots :
        /\ gt[c1].pc = "done" /\ Issued(gt[c1])
        /\ gt[c2].pc = "done" /\ ~Issued(gt[c2])
        /\ gt[c2].val = gt[c1].val
        /\ token = gt[c1].val
        /\ Issuances = 1

\* C5 (as claimed): a getToken() call whose verifyToken() reset an expired
\* cached token never resolves with that token: it resolves with the token it
\* issued, which differs from the expired one.
C5_ExpiredTokenNeverReturned ==
    \A c \in Slots :
        (gt[c].pc = "done" /\ gt[c].cleared # Undefined) =>
            /\ Issued(gt[c])
            /\ gt[c].val # Undefined
            /\ gt[c].val # gt[c].cleared

\* C6: a direct verifyToken() call (the only step that changes the state and
\* leaves the clock and the getToken() call alone) on a cached token whose exp
\* lies in the past resets the cache and returns nothing, in both modes; on a
\* cached token that is still valid it returns the decoded claims and leaves
\* the cache unchanged; with no cached token it returns nothing and changes
\* nothing.
C6_VerifyToken ==
    [][(gt' = gt /\ now' = now) =>
          /\ token = Undefined =>
                (token' = Undefined /\ verifyRet' = Undefined)
          /\ (token # Undefined /\ token.exp < now) =>
                (token' = Undefined /\ verifyRet' = Undefined)
          /\ (token # Undefined /\ now < token.exp) =>
                (token' = token /\ verifyRet' = JwtDecode(token))
    ]_vars

\* C6 witness: verifyToken() once returned the claims of the cached token, and
\* that token has since expired and been reset.
C6_Witness ==
    /\ verifyRet # Undefined
    /\ verifyRet.exp < now
    /\ token = Undefined

\* C7 (as claimed): every token getToken() resolves with has its exp later
\* than the clock at the moment the call resolves.
C7_ReturnedTokenValid ==
    [][\A c \in Slots :
          GtResolved(c) => (gt'[c].val # Undefined /\ now' < gt'[c].val.exp)
    ]_vars

\* C8: with a non-empty secretKey no getToken() call dispatches a request and
\* every token issued or cached is signed with the secretKey; with an empty
\* secretKey no call signs, and every call that did not find a cached token
\* dispatched POST /auth with the public key, its token (and the cache) being
\* one the remote endpoint signed.
C8_ModeFixedBySecretKey ==
    /\ (token # Undefined) =>
          token.sig = (IF secretKey # "" THEN secretKey ELSE ServerKey)
    /\ \A c \in Slots :
          /\ (gt[c].val # Undefined) =>
                gt[c].val.sig = (IF secretKey # "" THEN secretKey ELSE ServerKey)
          /\ (secretKey # "") =>
                /\ gt[c].req = Undefined
                /\ gt[c].pc \notin {"net", "failed"}
                /\ gt[c].pc = "outer" => gt[c].signed
          /\ (secretKey = "") =>
                /\ ~gt[c].signed
                /\ gt[c].pc \in {"net", "outer", "failed"} =>
                      (gt[c].req = AuthRequest /\ gt[c].req.public_key = PublicKey)

\* C8 witness: in remote mode a call resolved with a token it got by POST /auth.
C8_Witness ==
    \E c \in Slots :
        /\ secretKey = ""
        /\ gt[c].pc = "done"
        /\ gt[c].req = AuthRequest
        /\ gt[c].val.sig = ServerKey

\* C9: a getToken() call that finds no valid cached token performs its
\* issuance in the step of the call itself, whatever other calls are in flight
\* (in remote mode: it dispatches its own POST /auth); every call that resolves
\* resolves with a token; and each call that resumes from its await writes its
\* own token to the cache as it resolves, so once two overlapping calls have
\* both resolved the cache holds the token of the one that resolved last.
C9_ConcurrentGetToken ==
    [][\A c \in Slots :
          /\ (GtCalled(c) /\ VerifyToken(token, now).token = Undefined) =>
                /\ Issued(gt'[c])
                /\ (secretKey = "") => (gt'[c].req = AuthRequest /\ gt'[c].pc = "net")
          /\ GtResolved(c) => gt'[c].val # Undefined
          /\ (GtResolved(c) /\ Issued(gt[c])) => token' = gt'[c].val
    ]_vars

\* C9 witness: two calls are in flight at once in remote mode, each with its
\* own POST /auth answered with a different token; the cache holds the token
\* of the response that arrived last.
C9_Witness ==
    \E c1, c2 \in Slots :
        /\ secretKey = ""
        /\ gt[c1].pc = "outer" /\ gt[c2].pc = "outer"
        /\ gt[c1].req = AuthRequest /\ gt[c2].req = AuthRequest
        /\ gt[c1].val # gt[c2].val
        /\ token = gt[c2].val


\* The four fields start() sets.
TaskState == <<task_id, server, remaining_files, files>>

\* C11: a non-debug start() whose response body is missing, or whose server,
\* task or remaining_files is missing or falsy (remaining_files = 0
\* included), rejects with Error('Invalid response: missing required fields').
C11_InvalidStartResponse ==
    [][\A c \in Slots :
          ( /\ op[c].kind = "start" /\ op[c].pc = "net" /\ ~op[c].debug
            /\ op'[c].pc = "done"
            /\ op'[c].resp # Undefined
            /\ \/ ~op'[c].resp.present
               \/ op'[c].resp.server = ""
               \/ op'[c].resp.task = ""
               \/ op'[c].resp.remaining_files = 0 ) =>
              op'[c].out = [ok |-> FALSE,
                            err |-> "Invalid response: missing required fields"]
    ]_vars

\* C11 witness: a start() answered with a server, a task and
\* remaining_files = 0 was rejected with the invalid-response error.
C11_Witness ==
    \E c \in Slots :
        /\ op[c].kind = "start" /\ op[c].pc = "done" /\ ~op[c].debug
        /\ op[c].resp # Undefined
        /\ op[c].resp.present
        /\ op[c].resp.server # "" /\ op[c].resp.task # ""
        /\ op[c].resp.remaining_files = 0
        /\ op[c].out = Rejected(ErrInvalidResponse)

\* C12: no step of a start() call other than the one that resolves it changes
\* taskId, the server client, remainingFiles or uploadedFiles; a call that
\* ends rejected, for whatever reason, has therefore left them as they were.
C12_FailedStartKeepsState ==
    [][\A c \in Slots :
          ( /\ op[c].kind = "start" \/ op'[c].kind = "start"
            /\ op'[c] # op[c]
            /\ ~(op'[c].pc = "done" /\ op'[c].out # Undefined /\ op'[c].out.ok) ) =>
              TaskState' = TaskState
    ]_vars

\* C12 witness: on a session started earlier, a later start() was rejected
\* for an invalid response, and the values of the earlier start() are in place.
C12_Witness ==
    \E c \in Slots :
        /\ startedOk
        /\ op[c].kind = "start" /\ op[c].pc = "done"
        /\ op[c].out = Rejected(ErrInvalidResponse)
        /\ task_id # "" /\ server.set /\ remaining_files # 0 /\ files.set

\* C13: in every state the public methods reach, overlapping start() calls
\* included, taskId, the server client, remainingFiles and uploadedFiles are
\* all unset or all set, and when set, taskId, the host of the client and
\* remainingFiles are those of one and the same start() response.
C13_FieldsSetTogether ==
    \/ /\ task_id = ""
       /\ ~server.set
       /\ remaining_files = 0
       /\ ~files.set
    \/ /\ files.set
       /\ server.set
       /\ \E d \in StartDatas :
             /\ d.present /\ d.server # "" /\ d.task # "" /\ d.remaining_files # 0
             /\ task_id = d.task
             /\ remaining_files = d.remaining_files
             /\ server.baseURL = <<"https", d.server, "v1">>

\* C13 witness: two start() calls that were in flight together have both
\* resolved, with different responses, and the fields hold the second one's.
C13_Witness ==
    /\ op[1].kind = "start" /\ op[1].pc = "done"
    /\ op[2].kind = "start" /\ op[2].pc = "done"
    /\ op[1].out = Resolved([server |-> "server-1", task_id |-> "task-1",
                             remaining_files |-> 255])
    /\ op[2].out = Resolved([server |-> "server-2", task_id |-> "task-2",
                             remaining_files |-> 7])
    /\ task_id = "task-2"

C15_DebugWithoutStart ==
    [][\A c \in Slots :
          ( /\ op[c].pc = "idle"
            /\ op'[c].kind \in {"addFile", "deleteFile", "process", "download"}
            /\ op'[c].debug /\ op'[c].optsOk /\ op'[c].toolOk
            /\ ~startedOk ) =>
              /\ op'[c].out # Rejected(ErrNeedStart)
              /\ op'[c].pc = "vopts"
    ]_vars

\* The token of a header value `Bearer ${tok}`.
BearerToken(h) == h[2]

\* C16 (as claimed): every request a TaskSession call dispatches follows a
\* getToken() of that same call and carries the token it resolved with, and
\* the token on a request of the six task-scoped methods has not expired.
C16_TokenPerCall ==
    [][\A c \in Slots :
          (op[c].pc # "net" /\ op'[c].pc = "net") =>
              /\ gt[c].pc = "done"
              /\ op'[c].req.Authorization = <<"Bearer", gt[c].val>>
              /\ ( /\ op'[c].kind \in TaskMethods
                   /\ BearerToken(op'[c].req.Authorization) # Undefined ) =>
                     ~(now > BearerToken(op'[c].req.Authorization).exp)
    ]_vars

\* C17: a download() or details() call of a Task dispatches its request only
\* after the getToken() of that same call has resolved, and the request
\* carries 'Bearer {that token}'; when that getToken() found the cached token
\* expired, the token it sends was issued anew in the call; and a call whose
\* getToken() failed ends rejected without a request.
C17_DetachedTokenPerCall ==
    [][\A c \in Slots :
          /\ ( /\ op'[c].kind \in {"Task.download", "Task.details"}
               /\ op[c].pc # "net" /\ op'[c].pc = "net" ) =>
                 /\ gt[c].pc = "done"
                 /\ gt[c].val # Undefined
                 /\ op'[c].req.Authorization = <<"Bearer", gt[c].val>>
                 /\ server'.Authorization = <<"Bearer", gt[c].val>>
                 /\ gt[c].cleared # Undefined =>
                       (gt[c].signed \/ gt[c].req # Undefined)
          /\ ( /\ op[c].kind \in {"Task.download", "Task.details"}
               /\ gt[c].pc = "failed"
               /\ op'[c] # op[c] ) =>
                 /\ op'[c].pc \in {"done", "idle"}
                 /\ op'[c].req = Undefined
                 /\ op'[c].pc = "done" => op'[c].out = [ok |-> FALSE, err |-> gt[c].err]
    ]_vars

\* C17 witness: a call of the Task that found the token of an earlier call
\* expired is in flight with a token issued in this call, other than the
\* expired one.
C17_Witness ==
    \E c \in Slots :
        /\ op[c].kind \in DetachedMethods
        /\ op[c].pc = "net"
        /\ gt[c].cleared # Undefined
        /\ Issued(gt[c])
        /\ gt[c].val # gt[c].cleared
        /\ op[c].req.Authorization = Bearer(gt[c].val)

\* C18: classifyError never returns.  An Axios error with a response makes
\* it throw an ILoveApiError whose status is the status of the response,
\* whether or not a request is there too; one with a request and no
\* response a NetworkError 'No response received from the server.'; one with
\* neither a NetworkError 'An error occurred while setting up the request.';
\* any other value is thrown again as it is.
C18_ClassifyError ==
    thrown # Undefined =>
        LET axios == error.t = "object" /\ error.isAxiosError
            hasResponse == error.response.t = "object"
            hasRequest == error.request.t = "object"
        IN  /\ thrown.how = "throw"
            /\ (axios /\ hasResponse) =>
                  /\ thrown.value.name = "ILoveApiError"
                  /\ thrown.value.status = error.response.status
            /\ (axios /\ ~hasResponse /\ hasRequest) =>
                  /\ thrown.value.name = "NetworkError"
                  /\ thrown.value.message = <<"No response received from the server.">>
            /\ (axios /\ ~hasResponse /\ ~hasRequest) =>
                  /\ thrown.value.name = "NetworkError"
                  /\ thrown.value.message = <<"An error occurred while setting up the request.">>
            /\ ~axios => thrown.value = error

\* C18 witness: an Axios error that carries both a response and a request
\* was classified as an ILoveApiError with status 404.
C18_Witness ==
    /\ thrown # Undefined
    /\ error.t = "object" /\ error.isAxiosError
    /\ error.response.t = "object" /\ error.request.t = "object"
    /\ thrown.value.name = "ILoveApiError"
    /\ thrown.value.status = [t |-> "number", v |-> 404]

\* C19 (as claimed): for an Axios error with a response the message is
\* '{msg} (Status: {status}, Code: {code})', msg being data.message if
\* present, else data.error.message if present, else 'Unknown API error
\* occurred.', and code the code next to the message used, -1 when that is
\* absent, null, '' or 0.
C19_MessageIfPresent ==
    (thrown # Undefined /\ error.t = "object" /\ error.isAxiosError
                        /\ error.response.t = "object") =>
        LET d == error.response.data
            m == Prop(d, "message")
            e == Prop(d, "error")
            em == Prop(e, "message")
            Present(v) == v.t \notin {"undefined", "null"}
            NoCode(c) == \/ c.t \in {"undefined", "null"}
                         \/ c.t = "string" /\ c.v = <<>>
                         \/ c.t = "number" /\ c.v = 0
            CodeOr(c) == IF NoCode(c) THEN [t |-> "number", v |-> 0 - 1] ELSE c
            msg == IF Present(m) THEN m
                   ELSE IF Present(em) THEN em
                   ELSE [t |-> "string", v |-> <<"Unknown API error occurred.">>]
            code == IF Present(m) THEN CodeOr(Prop(d, "code"))
                    ELSE IF Present(em) THEN CodeOr(Prop(e, "code"))
                    ELSE [t |-> "number", v |-> 0 - 1]
        IN  thrown.value.message =
                FormattedMessage(msg, error.response.status, code)

\* C19 (amended): as above, but a message is used only if it is a string
\* with a character that is not white space; a message that is no string,
\* is empty or is all white space is passed over as if it were absent.
C19_MessageIfUsable ==
    (thrown # Undefined /\ error.t = "object" /\ error.isAxiosError
                        /\ error.response.t = "object") =>
        LET d == error.response.data
            m == Prop(d, "message")
            e == Prop(d, "error")
            em == Prop(e, "message")
            Usable(v) == v.t = "string" /\ \E i \in 1 .. Len(v.v) : v.v[i] # " "
            NoCode(c) == \/ c.t \in {"undefined", "null"}
                         \/ c.t = "string" /\ c.v = <<>>
                         \/ c.t = "number" /\ c.v = 0
            CodeOr(c) == IF NoCode(c) THEN [t |-> "number", v |-> 0 - 1] ELSE c
            msg == IF Usable(m) THEN m
                   ELSE IF Usable(em) THEN em
                   ELSE [t |-> "string", v |-> <<"Unknown API error occurred.">>]
            code == IF Usable(m) THEN CodeOr(Prop(d, "code"))
                    ELSE IF Usable(em) THEN CodeOr(Prop(e, "code"))
                    ELSE [t |-> "number", v |-> 0 - 1]
        IN  thrown.value.message =
                FormattedMessage(msg, error.response.status, code)

\* C19 witness: data.message is white space and has the code 1001 next to
\* it, data.error.message is 'Internal Server Error' with an empty code: the
\* message is 'Internal Server Error (Status: 404, Code: -1)'.
C19_Witness ==
    /\ thrown # Undefined
    /\ error.t = "object" /\ error.isAxiosError
    /\ error.response.t = "object"
    /\ error.response.data.t = "object"
    /\ error.response.data.message = [t |-> "string", v |-> <<" ">>]
    /\ error.response.data.code = [t |-> "number", v |-> 1001]
    /\ error.response.data.error.t = "object"
    /\ error.response.data.error.code = [t |-> "string", v |-> <<>>]
    /\ thrown.value.message =
          <<"Internal Server Error", " (Status: ", "4", "0", "4", ", Code: ", "-", "1", ")">>

\* What C20 says of every step of an invocation in slot c:
\*  - a request of the operation is dispatched only by an invocation that has
\*    dispatched none and has not ended;
\*  - getToken() is entered only by an invocation that has not entered it and
\*    has dispatched nothing, and a getToken() call only moves forward: from
\*    its one request to the token or the failure, never to a second
\*    issuance;
\*  - once getToken() has failed, the operation ends rejected with that
\*    error and without a request;
\*  - an invocation that has ended does nothing more.
SingleAttempt(c) ==
    /\ (op'[c].req # Undefined /\ op'[c].req # op[c].req) =>
          (op[c].req = Undefined /\ op[c].pc \notin {"done", "net"})
    /\ (gt[c].pc = "idle" /\ gt'[c].pc # "idle") =>
          (op[c].req = Undefined /\ op[c].pc \in {"idle", "vopts"})
    /\ (gt[c].pc # "idle" /\ gt'[c] # gt[c]) =>
          \/ gt[c].pc = "net" /\ gt'[c].pc \in {"outer", "failed"}
                              /\ gt'[c].req = gt[c].req /\ ~gt'[c].signed
          \/ gt[c].pc = "outer" /\ gt'[c].pc = "done"
                                /\ gt'[c].req = gt[c].req
                                /\ gt'[c].signed = gt[c].signed
          \/ gt[c].pc \in {"done", "failed"} /\ gt'[c].pc = "idle"
                                              /\ op'[c].pc = "idle"
    /\ (gt[c].pc = "failed" /\ op[c].pc # "idle" /\ op'[c] # op[c]) =>
          \/ /\ op[c].pc = "token"
             /\ op'[c].pc = "done"
             /\ op'[c].out = [ok |-> FALSE, err |-> gt[c].err]
             /\ op'[c].req = Undefined
          \/ op[c].pc = "done" /\ op'[c].pc = "idle"
    /\ (op[c].pc = "done" /\ op'[c] # op[c]) =>
          (op'[c].pc = "idle" /\ op'[c].req = Undefined)

\* A start() call ends rejected in slot c.
StartRejected(c) ==
    /\ op'[c].kind = "start"
    /\ op[c].pc # "done" /\ op'[c].pc = "done"
    /\ ~op'[c].out.ok

\* C20 (as claimed): no invocation of getToken, start, addFile, deleteFile,
\* process, download, details, delete or listTasks makes a second attempt,
\* and a start() that fails has called getToken() exactly once.
C20_NoRetryExactlyOnce ==
    [][\A c \in Slots :
          /\ SingleAttempt(c)
          /\ StartRejected(c) => gt'[c].pc # "idle"
    ]_vars

\* C20 (amended): no invocation makes a second attempt, and a start() that
\* fails has called getToken() once if its options passed validation and not
\* at all if they did not.
C20_NoRetry ==
    [][\A c \in Slots :
          /\ SingleAttempt(c)
          /\ StartRejected(c) =>
                (gt'[c].pc # "idle" <=> op'[c].out # [ok |-> FALSE, err |-> "ZodError"])
    ]_vars

\* C20 witness: a start() whose GET /start failed in the network has ended
\* rejected, after the one getToken() call that resolved and the one request.
C20_Witness ==
    \E c \in Slots :
        /\ op[c].kind = "start" /\ op[c].pc = "done"
        /\ op[c].out = Rejected("NetworkError")
        /\ op[c].req # Undefined
        /\ gt[c].pc = "done"

\* What C21 promises of a call in slot c that ends with options that fail
\* validation: it rejects with the validation error, has dispatched no
\* request, has asked for no token, and has changed neither the task fields,
\* nor the header of a client, nor the token cache.
RejectsUnvalidated(c) ==
    /\ op'[c].out = [ok |-> FALSE, err |-> "ZodError"]
    /\ op'[c].req = Undefined
    /\ gt'[c].pc = "idle"
    /\ TaskState' = TaskState
    /\ fixedAuth' = fixedAuth
    /\ token' = token

PublicKeyValid == ctor.publicKey.t = "string" /\ ctor.publicKey.v # <<>>

\* The secretKey of the call under way is truthy and no string.
SecretKeyBad ==
    \/ ctor.secretKey.t = "object"
    \/ ctor.secretKey.t = "number" /\ ctor.secretKey.v # 0

\* taskId and taskServer of the call under way are non-empty strings.
TaskArgsValid ==
    /\ ctor.taskId.t = "string" /\ ctor.taskId.v # <<>>
    /\ ctor.taskServer.t = "string" /\ ctor.taskServer.v # <<>>

\* The constructor call under way ends in this step.
Constructs == ctor # Undefined /\ ctor.out = Undefined /\ ctor'.out # Undefined

\* C22: a constructor of Auth, of ILoveIMGApi, or of Task with a valid taskId
\* and taskServer, throws 'publicKey is required and must be a string.' when
\* the publicKey is missing, empty or no string, and 'secretKey must be a
\* string.' when the publicKey is valid and the secretKey is truthy and no
\* string; no constructor call, failed or not, dispatches a request or
\* leaves a cached token.
C22_KeysChecked ==
    [][Constructs =>
          /\ (ctor.class # "Task" \/ TaskArgsValid) =>
                /\ ~PublicKeyValid => ctor'.out = Rejected(ErrPublicKey)
                /\ (PublicKeyValid /\ SecretKeyBad) =>
                      ctor'.out = Rejected(ErrSecretKey)
          /\ token' = Undefined
          /\ \A c \in Slots : gt'[c] = GtIdle /\ op'[c] = OpIdle
          /\ fixedAuth' = Undefined
    ]_vars

\* C22 witness: a Task was constructed with a valid taskId and taskServer, a
\* valid publicKey and a number for secretKey, and threw the secretKey error.
C22_Witness ==
    /\ ctor # Undefined
    /\ ctor.class = "Task"
    /\ TaskArgsValid /\ PublicKeyValid /\ SecretKeyBad
    /\ ctor.out = Rejected(ErrSecretKey)
    /\ token = Undefined

\* C23 (as claimed): the Task constructor tests the keys before taskId and
\* taskServer: with an invalid key it throws the key's error whatever the
\* task fields, and it throws the taskId/taskServer error only with valid keys.
C23_KeysBeforeTaskArgs ==
    [][(Constructs /\ ctor.class = "Task") =>
          /\ ~PublicKeyValid => ctor'.out = Rejected(ErrPublicKey)
          /\ (PublicKeyValid /\ SecretKeyBad) => ctor'.out = Rejected(ErrSecretKey)
          /\ ctor'.out = Rejected(ErrTaskArgs) => (PublicKeyValid /\ ~SecretKeyBad)
    ]_vars

\* C23 (amended): the Task constructor tests taskId and taskServer before the
\* keys: with an invalid taskId or taskServer it throws their error whatever
\* the keys, and it throws a key's error only when both are valid.
C23_TaskArgsBeforeKeys ==
    [][(Constructs /\ ctor.class = "Task") =>
          /\ ~TaskArgsValid => ctor'.out = Rejected(ErrTaskArgs)
          /\ ctor'.out \in {Rejected(ErrPublicKey), Rejected(ErrSecretKey)} =>
                TaskArgsValid
          /\ ctor'.out = Rejected(ErrTaskArgs) => ~TaskArgsValid
    ]_vars

\* C23 witness: a Task was constructed with an invalid publicKey and an
\* invalid taskId, and threw the taskId/taskServer error.
C23_Witness ==
    /\ ctor # Undefined
    /\ ctor.class = "Task"
    /\ ~PublicKeyValid
    /\ ~TaskArgsValid
    /\ ctor.out = Rejected(ErrTaskArgs)

\* C24: without a secret key listTasks() rejects at once with 'Secret key
\* required for list tasks.', having validated nothing, asked for no token
\* and dispatched nothing; with a secret key (and options that pass, C21
\* covering those that fail) it calls getToken(), and only with the token it
\* got dispatches POST /task, once, with secret_key in the body.
C24_ListTasks ==
    [][\A c \in Slots :
          /\ (op[c].pc = "idle" /\ op'[c].pc # "idle" /\ op'[c].kind = "listTasks") =>
                IF secretKey = ""
                THEN /\ op'[c].pc = "done"
                     /\ op'[c].out = Rejected(ErrNeedSecretKey)
                     /\ op'[c].req = Undefined
                     /\ gt'[c] = GtIdle
                     /\ token' = token /\ fixedAuth' = fixedAuth
                ELSE op'[c].pc = "vopts" /\ op'[c].req = Undefined /\ gt'[c] = GtIdle
          /\ (op[c].kind = "listTasks" /\ op[c].pc = "vopts" /\ op[c].optsOk /\ op'[c] # op[c]) =>
                /\ op'[c].pc = "token" /\ op'[c].req = Undefined
                /\ gt'[c].pc # "idle"
          /\ (op[c].kind = "listTasks" /\ op[c].pc = "token" /\ op'[c] # op[c]) =>
                /\ gt[c].pc = "done" /\ gt[c].val # Undefined
                /\ op'[c].pc = "net"
                /\ op'[c].req # Undefined
                /\ op'[c].req.method = "POST" /\ op'[c].req.path = <<"/task">>
                /\ op'[c].req.secret_key = secretKey /\ secretKey # ""
                /\ op'[c].req.Authorization = Bearer(gt[c].val)
          /\ (op[c].kind = "listTasks" /\ op[c].req # Undefined /\ op'[c].pc # "idle") =>
                op'[c].req = op[c].req
          /\ (op[c].kind = "listTasks" /\ op'[c].pc = "done" /\ op'[c].req = Undefined) =>
                (secretKey = "" \/ ~op'[c].optsOk)
    ]_vars

\* C24 witness: on an entry point with a secret key a listTasks() call has
\* returned the body POST /task was answered with.
C24_Witness ==
    \E c \in Slots :
        /\ op[c].kind = "listTasks" /\ op[c].pc = "done"
        /\ secretKey # ""
        /\ op[c].req # Undefined
        /\ op[c].req.secret_key = secretKey
        /\ op[c].out = Resolved(Response.data)
        /\ gt[c].pc = "done"

\* C25: the sessions of one entry point and its listTasks() share one token
\* manager: handing out a session leaves the cached token and the header of
\* the fixed client as they are, and a start() or listTasks() call that asks
\* for a token while a cached one is within its lifetime (now < exp) gets
\* that token, with no issuance, and sends it.
C25_SharedTokenManager ==
    [][/\ sessions' # sessions => (token' = token /\ fixedAuth' = fixedAuth)
       /\ \A c \in Slots :
             /\ ( /\ GtCalled(c) /\ op'[c].kind \in {"start", "listTasks"}
                  /\ token # Undefined /\ now < token.exp ) =>
                   /\ gt'[c].pc = "done"
                   /\ gt'[c].val = token
                   /\ ~Issued(gt'[c])
                   /\ token' = token
             /\ ( /\ op[c].kind \in {"start", "listTasks"}
                  /\ op[c].pc = "token" /\ op'[c].pc = "net" ) =>
                   /\ op'[c].req.Authorization = Bearer(gt[c].val)
                   /\ fixedAuth' = Bearer(gt[c].val)
    ]_vars

\* C25 witness: on the second session of the entry point a start() call sent
\* the cached token, which it got without an issuance.
C25_Witness ==
    \E c \in Slots :
        /\ sessions = 2
        /\ op[c].kind = "start" /\ op[c].pc = "net"
        /\ gt[c].pc = "done" /\ ~Issued(gt[c])
        /\ token # Undefined /\ gt[c].val = token
        /\ op[c].req.Authorization = Bearer(token)

\* toolOptions?.[tool] for the tool of the session.
OwnToolOptions(x) == Prop(Default(x, EmptyToolOptions), tool)

\* C26: what a process() call does once its generic options have passed is
\* fixed by the sub-object of toolOptions keyed by the tool of the session:
\* with any other toolOptions that has the same sub-object under that key,
\* however the sub-objects of the other tools differ, the call would be
\* rejected likewise or dispatch the same POST /process.
C26_OnlyOwnToolOptions ==
    [][\A c \in Slots :
          (op[c].kind = "process" /\ op[c].pc = "vtool" /\ op'[c] # op[c]) =>
              \A y \in ToolOptionsArgs :
                  OwnToolOptions(y) = OwnToolOptions(op[c].toolOptions) =>
                      LET r == validateProcessToolOptions(tool,
                                   Default(y, EmptyToolOptions))
                      IN  /\ op'[c].pc \in {"net", "done"}
                          /\ op'[c].pc = "net" =>
                                /\ r.ok
                                /\ op'[c].req = Request("process", op[c].debug, y)
                          /\ op'[c].out = Rejected(ErrZod) <=> ~r.ok
    ]_vars

\* C26 witness: on an upscaleimage session a process() call whose toolOptions
\* hold {multiplier: 2} for upscaleimage and the malformed {to: 'bmp'} for
\* convertimage has dispatched POST /process with the multiplier and no to.
C26_Witness ==
    \E c \in Slots :
        /\ tool = "upscaleimage"
        /\ op[c].kind = "process" /\ op[c].pc = "net"
        /\ op[c].toolOptions.t = "object"
        /\ op[c].toolOptions.upscaleimage = [t |-> "object", multiplier |-> JsNumber(2)]
        /\ op[c].toolOptions.convertimage.t = "object"
        /\ op[c].toolOptions.convertimage.to = JsString(<<"bmp">>)
        /\ op[c].req.toolOptions = [NoToolOptions EXCEPT !.multiplier = JsNumber(2)]

\* toolOptions?.upscaleimage?.multiplier.
Multiplier(x) == Prop(Prop(x, "upscaleimage"), "multiplier")

ConvertOption(x, k) == Prop(Prop(x, "convertimage"), k)

\* C28 (as claimed): on a convertimage session every dispatched POST /process
\* holds to, gif_time and gif_loop: what the caller gave, and 'jpg', 50 and
\* true for what the caller left out, also when toolOptions is {} or is not
\* passed.
C28_ConvertDefaults ==
    [][\A c \in Slots :
          ( /\ tool = "convertimage" /\ op[c].kind = "process"
            /\ op[c].pc # "net" /\ op'[c].pc = "net" ) =>
              /\ op'[c].req.toolOptions.to =
                    Default(ConvertOption(op[c].toolOptions, "to"), JsString(<<"jpg">>))
              /\ op'[c].req.toolOptions.gif_time =
                    Default(ConvertOption(op[c].toolOptions, "gif_time"), JsNumber(50))
              /\ op'[c].req.toolOptions.gif_loop =
                    Default(ConvertOption(op[c].toolOptions, "gif_loop"), JsBoolean(TRUE))
    ]_vars

\* The getToken() call in slot c receives in this step an answer to POST
\* /auth whose body has no token.
AnsweredWithoutToken(c) ==
    /\ gt[c].pc = "net"
    /\ gt'[c].resp # Undefined
    /\ ~(gt'[c].resp.t = "object" /\ gt'[c].resp.token # Undefined)

\* What C29 promises of such a call, but for the error: it fails and caches
\* nothing, so that an absent cache remains absent.
FailsUncached(c) ==
    /\ gt'[c].pc = "failed"
    /\ gt'[c].val = Undefined
    /\ token' = token
    /\ token = Undefined => token' = Undefined

\* C29 (as claimed): a getToken() call whose POST /auth is answered without a
\* truthy token rejects with 'Auth token cannot be retrieved' and leaves the
\* cache absent; no getToken() call resolves with an absent token.
C29_NoTokenInResponse ==
    [][\A c \in Slots :
          /\ AnsweredWithoutToken(c) =>
                (FailsUncached(c) /\ gt'[c].err = "Auth token cannot be retrieved")
          /\ gt'[c].pc = "done" => gt'[c].val # Undefined
    ]_vars

\* C29 (amended): such a call rejects and leaves the cache absent; the error
\* is 'Auth token cannot be retrieved' when the body is an object, and the
\* TypeError of reading the token of null when the body is null; no
\* getToken() call resolves with an absent token.
C29_NoTokenInObjectResponse ==
    [][\A c \in Slots :
          /\ AnsweredWithoutToken(c) =>
                /\ FailsUncached(c)
                /\ gt'[c].err = IF gt'[c].resp.t = "object"
                                THEN "Auth token cannot be retrieved"
                                ELSE "TypeError"
          /\ gt'[c].pc = "done" => gt'[c].val # Undefined
    ]_vars

\* C29 witness: a getToken() call was answered with an object without a
\* token, and has failed with 'Auth token cannot be retrieved', the cache
\* being absent.
C29_Witness ==
    \E c \in Slots :
        /\ secretKey = ""
        /\ gt[c].pc = "failed"
        /\ gt[c].resp = [t |-> "object", token |-> Undefined]
        /\ gt[c].err = "Auth token cannot be retrieved"
        /\ token = Undefined

\* C30: a token signed locally at clock t has iat = nbf = t - 30, exp = t +
\* age, jti = publicKey and iss = the configured issuer, hence exp - iat =
\* age + 30; and so has every cached token in local mode.
C30_LocalClaims ==
    [][/\ \A c \in Slots :
             (GtCalled(c) /\ gt'[c].signed) =>
                 LET p == JwtDecode(gt'[c].val)
                 IN  /\ p.iat = now - 30 /\ p.nbf = now - 30
                     /\ p.exp = now + age
                     /\ p.jti = PublicKey
                     /\ p.iss = iss
                     /\ p.exp - p.iat = age + 30
                     /\ token' = gt'[c].val
       /\ (secretKey # "" /\ token' # Undefined) =>
             /\ token'.exp - token'.iat = age + 30
             /\ token'.nbf = token'.iat
             /\ token'.iss = iss /\ token'.jti = PublicKey
    ]_vars

\* C30 witness: with the issuer 'mydomain.com' and age 1 a token was signed
\* one second after the construction: iat = nbf = -29, exp = 2.
C30_Witness ==
    \E c \in Slots :
        /\ gt[c].signed /\ gt[c].pc = "done"
        /\ iss = "mydomain.com" /\ age = 1
        /\ gt[c].val.iat = 0 - 29 /\ gt[c].val.nbf = 0 - 29 /\ gt[c].val.exp = 2
        /\ gt[c].val.iss = "mydomain.com" /\ gt[c].val.jti = PublicKey

\* C31: verifyToken() depends on the mode.  With a secretKey it resets the
\* cache and returns nothing whenever the cached token is not signed with the
\* secretKey or is expired.  Without a secretKey it resets the cache exactly
\* when the clock is later than the decoded exp, whatever key signed the
\* token, and otherwise keeps it and returns its claims; getToken() then
\* resolves at once with that token.
C31_VerifyByMode ==
    [][/\ (VerifyTokenCall /\ token # Undefined) =>
             /\ (secretKey # "" /\ (token.sig # secretKey \/ now >= token.exp)) =>
                   (token' = Undefined /\ verifyRet' = Undefined)
             /\ (secretKey = "") =>
                   /\ (token' = Undefined) <=> (now > JwtDecode(token).exp)
                   /\ (token' # Undefined) =>
                         (token' = token /\ verifyRet' = JwtDecode(token))
       /\ \A c \in Slots :
             (/\ GtCalled(c)
              /\ secretKey = ""
              /\ token # Undefined
              /\ ~(now > JwtDecode(token).exp)) =>
                 /\ gt'[c].pc = "done"
                 /\ gt'[c].val = token
                 /\ gt'[c].req = Undefined
                 /\ token' = token
    ]_vars

\* C31 witness: without a secretKey, getToken() has resolved, with no request,
\* with a cached token that neither the remote endpoint nor the secretKey of
\* the local mode signed, at the second of its exp.
C31_Witness ==
    \E c \in Slots :
        /\ secretKey = ""
        /\ gt[c].pc = "done"
        /\ gt[c].req = Undefined
        /\ gt[c].val.sig = "anotherKey"
        /\ gt[c].val.exp = now
        /\ token = gt[c].val

C34_StartTokenThenRequest ==
    [][\A c \in Slots :
          /\ (op'[c].kind = "start" /\ op[c].req = Undefined /\ op'[c].req # Undefined) =>
                /\ gt[c].pc = "done" /\ gt[c].val # Undefined
                /\ op'[c].req.method = "GET"
                /\ op'[c].req.path = <<"/start", tool>>
                /\ op'[c].req.Authorization = Bearer(gt[c].val)
                /\ fixedAuth' = Bearer(gt[c].val)
          /\ (op[c].kind = "start" /\ op[c].pc = "net" /\ op'[c].pc = "done") =>
                fixedAuth' = fixedAuth
          /\ (op[c].kind = "start" /\ op[c].pc = "token" /\ gt[c].pc = "failed"
                /\ op'[c] # op[c]) =>
                /\ op'[c].pc = "done"
                /\ op'[c].req = Undefined
                /\ op'[c].out = Rejected(gt[c].err)
                /\ fixedAuth' = fixedAuth
    ]_vars

\* C34 witness: a start() got its token, dispatched GET /start with it and the
\* request failed in the network; the fixed client still carries that token.
C34_Witness ==
    \E c \in Slots :
        /\ op[c].kind = "start" /\ op[c].pc = "done"
        /\ op[c].out = Rejected("NetworkError")
        /\ op[c].req # Undefined
        /\ op[c].req.Authorization = Bearer(gt[c].val)
        /\ fixedAuth = Bearer(gt[c].val)

\* response.data of the Axios error at hand carries a message that is a
\* non-empty string of white space only.
WhitespaceMessage ==
    /\ thrown # Undefined
    /\ error.t = "object" /\ error.isAxiosError
    /\ error.response.t = "object"
    /\ error.response.data.t = "object"
    /\ error.response.data.message.t = "string"
    /\ error.response.data.message.v # <<>>
    /\ \A i \in 1 .. Len(error.response.data.message.v) :
          error.response.data.message.v[i] = " "

\* C35 (as claimed): when data.message is a non-empty string of white space
\* only, classifyError uses it as the message, with the top-level code next
\* to it (-1 when that is falsy).
C35_WhitespaceMessageUsed ==
    WhitespaceMessage =>
        thrown.value.message =
            FormattedMessage(error.response.data.message, error.response.status,
                             Or(error.response.data.code, JsNumber(0 - 1)))

\* C35 (amended): such a message is passed over: classifyError uses
\* data.error.message with the code under data.error when that message is a
\* string with a character that is not white space, and otherwise 'Unknown
\* API error occurred.' with the code -1; the top-level code is not used.
C35_WhitespaceMessagePassedOver ==
    WhitespaceMessage =>
        LET e == Prop(error.response.data, "error")
            em == Prop(e, "message")
            nested == em.t = "string" /\ \E i \in 1 .. Len(em.v) : em.v[i] # " "
        IN  thrown.value.message =
                IF nested
                THEN FormattedMessage(em, error.response.status,
                                      Or(Prop(e, "code"), JsNumber(0 - 1)))
                ELSE <<"Unknown API error occurred.", " (Status: ", "4", "0", "4",
                       ", Code: ", "-", "1", ")">>

\* C35 witness: data.message is ' ' with the code 1001 next to it and there is
\* no data.error: the message is 'Unknown API error occurred. (Status: 404,
\* Code: -1)'.
C35_Witness ==
    /\ WhitespaceMessage
    /\ error.response.data.message = JsString(<<" ">>)
    /\ error.response.data.code = JsNumber(1001)
    /\ error.response.data.error = JsUndefined
    /\ thrown.value.message =
          <<"Unknown API error occurred.", " (Status: ", "4", "0", "4",
            ", Code: ", "-", "1", ")">>

\* C36: every POST /process request that is dispatched carries a non-empty
\* files list, also when a start() call on the same session completes while
\* process() is suspended between its precondition check and the dispatch.
C36_ProcessCarriesFiles ==
    \A c \in Slots :
        (op[c].kind = "process" /\ op[c].req # Undefined) =>
            op[c].req.files # <<>>

\* C37: a successful non-debug start() on a session that is already started
\* replaces taskId, the server client and remainingFiles by the values of its
\* response and resets uploadedFiles to an empty list, whatever it held, so
\* that process() fails the 'add files first' precondition again; only a
\* successful start() changes taskId or the client, and every request the six
\* methods dispatch is addressed to the client and carries the task id the
\* session holds at the dispatch, that is, those of the latest such start().
C37_Restart ==
    [][/\ \A c \in Slots :
             ( /\ op[c].kind = "start" /\ op[c].pc = "net" /\ ~op[c].debug
               /\ op'[c].pc = "done" /\ op'[c].out.ok
               /\ task_id # "" /\ server.set ) =>
                 /\ task_id' = op'[c].resp.task
                 /\ remaining_files' = op'[c].resp.remaining_files
                 /\ server' = NewServer(op'[c].resp.server, gt[c].val)
                 /\ files' = FileList(<<>>)
                 /\ PreconditionError("process", FALSE)' = ErrNeedFiles
       /\ (task_id' # task_id \/ server' # server) =>
             \E c \in Slots :
                 /\ op[c].kind = "start" /\ ~op[c].debug
                 /\ op[c].pc = "net" /\ op'[c].pc = "done" /\ op'[c].out.ok
       /\ \A c \in Slots :
             (op'[c].kind \in TaskMethods /\ op[c].req = Undefined
                 /\ op'[c].req # Undefined) =>
                 /\ op'[c].req.baseURL = server.baseURL
                 /\ op'[c].req.Authorization = server.Authorization
                 /\ op'[c].kind \in {"addFile", "deleteFile", "process"} =>
                       op'[c].req.task = task_id
                 /\ op'[c].kind \in {"download", "details", "delete"} =>
                       op'[c].req.path[2] = task_id
    ]_vars

\* C37 witness: process() dispatched a request for task-1 with a file to
\* server-1, and a start() that then succeeded with {server-2, task-2, 7} has
\* replaced the fields and emptied the files list.
C37_Witness ==
    /\ op[1].kind = "process" /\ op[1].req # Undefined
    /\ op[1].req.task = "task-1"
    /\ op[1].req.baseURL = BaseURL("server-1")
    /\ op[1].req.files = <<AFile>>
    /\ op[2].kind = "start" /\ op[2].pc = "done"
    /\ op[2].out = Resolved([server |-> "server-2", task_id |-> "task-2",
                             remaining_files |-> 7])
    /\ task_id = "task-2" /\ remaining_files = 7
    /\ server.set /\ server.baseURL = BaseURL("server-2")
    /\ files = FileList(<<>>)

\* C38: the step in which a getToken() call fails leaves the cache as it is:
\* the call caches nothing of its own and clears nothing another call has
\* cached meanwhile.  Failure is not remembered: whatever calls have failed, a
\* call that finds no valid cached token in remote mode dispatches POST /auth
\* again, and a response with a token makes it cache that token and resolve
\* with it.
C38_FailureNotSticky ==
    [][\A c \in Slots :
          /\ (gt[c].pc # "failed" /\ gt'[c].pc = "failed") =>
                (token' = token /\ gt'[c].val = Undefined)
          /\ (GtCalled(c) /\ secretKey = ""
                /\ VerifyToken(token, now).token = Undefined) =>
                (gt'[c].pc = "net" /\ gt'[c].req = AuthRequest)
          /\ (gt[c].pc = "net" /\ gt'[c].resp # Undefined
                /\ gt'[c].resp.t = "object" /\ gt'[c].resp.token # Undefined) =>
                /\ gt'[c].pc = "outer"
                /\ gt'[c].val = gt'[c].resp.token
                /\ token' = gt'[c].resp.token
          /\ (gt[c].pc = "outer" /\ gt'[c] # gt[c]) =>
                (gt'[c].pc = "done" /\ token' = gt'[c].val)
    ]_vars

\* C38 witness: of two calls that both found the cache empty, one has failed
\* in the network and the other has resolved with a token POST /auth answered;
\* that token is in the cache.
C38_Witness ==
    \E c1, c2 \in Slots :
        /\ secretKey = ""
        /\ gt[c1].pc = "failed" /\ gt[c1].err = "NetworkError"
        /\ gt[c1].req = AuthRequest
        /\ gt[c2].pc = "done" /\ gt[c2].req = AuthRequest
        /\ gt[c2].val # Undefined
        /\ token = gt[c2].val

\* C39: in every POST /upload, DELETE /upload and POST /process request that
\* is dispatched the task of the body is the session's taskId at the dispatch,
\* and in POST /process the tool and the files are the session's tool and
\* uploadedFiles, whatever keys the caller put into options or toolOptions.
C39_BodyNotOverridden ==
    [][\A c \in Slots :
          (op'[c].kind \in {"addFile", "deleteFile", "process"}
              /\ op[c].req = Undefined /\ op'[c].req # Undefined) =>
              /\ op'[c].req.task = task_id
              /\ op'[c].kind = "process" =>
                    (op'[c].req.tool = tool /\ op'[c].req.files = files.list)
    ]_vars

\* C39 witness: process() was called with task, tool and files both in its
\* options and in the tool options of an upscaleimage session, and its request
\* carries the session's task id, tool and file.
C39_Witness ==
    \E c \in Slots :
        /\ op[c].kind = "process" /\ op[c].req # Undefined
        /\ tool = "upscaleimage"
        /\ op[c].extra.options.task = "other-task"
        /\ op[c].extra.toolOptions.files = FileList(<<>>)
        /\ op[c].req.task = task_id /\ task_id # ""
        /\ op[c].req.tool = "upscaleimage"
        /\ op[c].req.files = <<AFile>>

====
